---- MODULE Spec2Model ----
(***************************************************************************)
(* A model of turbotftp: the TFTP client (src/src/tftp_client.cpp), the    *)
(* TFTP server (src/src/tftp_server.cpp) and the packet codec              *)
(* (src/src/tftp_common.hpp), with the datagram network between them.      *)
(*                                                                         *)
(* Packets are byte sequences (0..255) exactly as the codec lays them out; *)
(* files are byte sequences; every handler is one action that covers the   *)
(* code from one recvfrom() to the next.                                   *)
(***************************************************************************)
EXTENDS Integers, Sequences, FiniteSets, TLC

(***************************************************************************)
(* Program constants (tftp_common.hpp, tftp_server.cpp)                    *)
(***************************************************************************)
TFTP_OPCODE_RRQ ==
    1
TFTP_OPCODE_WRQ ==
    2
TFTP_OPCODE_DATA ==
    3
TFTP_OPCODE_ACK ==
    4
TFTP_OPCODE_ERROR ==
    5
TFTP_ERROR_NOT_DEFINED ==
    0
TFTP_ERROR_FILE_NOT_FOUND ==
    1
TFTP_ERROR_ACCESS_VIOLATION ==
    2
TFTP_ERROR_DISK_FULL ==
    3
TFTP_ERROR_ILLEGAL_OPERATION ==
    4
TFTP_ERROR_UNKNOWN_TRANSFER_ID ==
    5
TFTP_ERROR_FILE_ALREADY_EXISTS ==
    6
TFTP_DEFAULT_PORT ==
    69
MAX_PACKET_SIZE ==
    516
DATA_HEADER_SIZE ==
    4
MAX_DATA_SIZE ==
    512
ACK_PACKET_SIZE ==
    4
ERROR_HEADER_SIZE ==
    4
MAX_RETRIES ==
    5
\* uint16_t arithmetic wraps modulo 2^16
U16 ==
    65536

(***************************************************************************)
(* Bounds of the model                                                     *)
(***************************************************************************)
\* files hold up to MaxBlocks full blocks
MaxBlocks ==
    2
\* client invocations in one behaviour (a PUT followed by a GET needs two)
MaxRuns ==
    2
\* network faults (drop, duplicate, foreign packet, late delivery) in one behaviour
MaxFaults ==
    1

(***************************************************************************)
(* Strings of the program, as bytes                                        *)
(***************************************************************************)
\* "octet"
OCTET ==
    <<111, 99, 116, 101, 116>>
\* "File not found"
MSG_FILE_NOT_FOUND ==
    <<70, 105, 108, 101, 32, 110, 111, 116, 32, 102, 111, 117, 110, 100>>
\* "File already exists"
MSG_FILE_EXISTS ==
    <<70, 105, 108, 101, 32, 97, 108, 114, 101, 97, 100, 121, 32, 101, 120,
      105, 115, 116, 115>>
\* "Invalid filename characters"
MSG_INVALID_FILENAME ==
    <<73, 110, 118, 97, 108, 105, 100, 32, 102, 105, 108, 101, 110, 97, 109,
      101, 32, 99, 104, 97, 114, 97, 99, 116, 101, 114, 115>>
\* "Unsupported mode (use octet)"
MSG_UNSUPPORTED_MODE ==
    <<85, 110, 115, 117, 112, 112, 111, 114, 116, 101, 100, 32, 109, 111, 100,
      101, 32, 40, 117, 115, 101, 32, 111, 99, 116, 101, 116, 41>>
\* "Malformed request packet"
MSG_MALFORMED_REQUEST ==
    <<77, 97, 108, 102, 111, 114, 109, 101, 100, 32, 114, 101, 113, 117, 101,
      115, 116, 32, 112, 97, 99, 107, 101, 116>>
\* "Malformed DATA packet"
MSG_MALFORMED_DATA ==
    <<77, 97, 108, 102, 111, 114, 109, 101, 100, 32, 68, 65, 84, 65, 32, 112,
      97, 99, 107, 101, 116>>
\* "Unexpected block number"
MSG_UNEXPECTED_BLOCK ==
    <<85, 110, 101, 120, 112, 101, 99, 116, 101, 100, 32, 98, 108, 111, 99,
      107, 32, 110, 117, 109, 98, 101, 114>>
\* "Unexpected packet type"
MSG_UNEXPECTED_TYPE ==
    <<85, 110, 101, 120, 112, 101, 99, 116, 101, 100, 32, 112, 97, 99, 107,
      101, 116, 32, 116, 121, 112, 101>>
\* "Cannot write file"
MSG_CANNOT_WRITE ==
    <<67, 97, 110, 110, 111, 116, 32, 119, 114, 105, 116, 101, 32, 102, 105, 108, 101>>

\* "Malformed error packet received"
MSG_MALFORMED_ERROR ==
    <<77, 97, 108, 102, 111, 114, 109, 101, 100, 32, 101, 114, 114, 111, 114,
      32, 112, 97, 99, 107, 101, 116, 32, 114, 101, 99, 101, 105, 118, 101, 100>>

(***************************************************************************)
(* Packet codec (tftp_common.hpp)                                          *)
(***************************************************************************)
\* mutant of htons: the two bytes in host order of a little-endian machine
htons_mutant(v) ==
    <<v % 256, (v % U16) \div 256>>

\* htons(v) laid out in memory: two bytes, most significant first
htons(v) ==
    <<(v % U16) \div 256, v % 256>>

\* ntohs of the two bytes at buffer[at], buffer[at+1] (at is 1-based)
ntohs(buffer, at) ==
    buffer[at] * 256 + buffer[at + 1]

\* memchr(buffer + from - 1, 0, ...): index of the first zero byte at or after
\* from, or 0 when there is none
memchr0(buffer, from) ==
    LET hits == {i \in from..Len(buffer) : buffer[i] = 0}
    IN  IF hits = {} THEN 0 ELSE CHOOSE i \in hits : \A j \in hits : i <= j

tolower(c) ==
    IF c \in 65..90 THEN c + 32 ELSE c

lower(s) ==
    [i \in 1..Len(s) |-> tolower(s[i])]

create_rrq_packet(filename) ==
    htons(TFTP_OPCODE_RRQ) \o filename \o <<0>> \o OCTET \o <<0>>

create_wrq_packet(filename) ==
    htons(TFTP_OPCODE_WRQ) \o filename \o <<0>> \o OCTET \o <<0>>

create_data_packet(block_num, data) ==
    htons(TFTP_OPCODE_DATA) \o htons(block_num) \o data

create_ack_packet(block_num) ==
    htons(TFTP_OPCODE_ACK) \o htons(block_num)

create_error_packet(error_code, error_msg) ==
    htons(TFTP_OPCODE_ERROR) \o htons(error_code) \o error_msg \o <<0>>

get_opcode(buffer) ==
    IF Len(buffer) < 2 THEN 0 ELSE ntohs(buffer, 1)

\* mutant of parse_ack_packet: a longer buffer is taken for an ACK as well
parse_ack_packet_mutant(buffer) ==
    IF Len(buffer) < ACK_PACKET_SIZE \/ get_opcode(buffer) # TFTP_OPCODE_ACK
    THEN [ok |-> FALSE, block_num |-> 0]
    ELSE [ok |-> TRUE, block_num |-> ntohs(buffer, 3)]

parse_ack_packet(buffer) ==
    IF Len(buffer) # ACK_PACKET_SIZE \/ get_opcode(buffer) # TFTP_OPCODE_ACK
    THEN [ok |-> FALSE, block_num |-> 0]
    ELSE [ok |-> TRUE, block_num |-> ntohs(buffer, 3)]

parse_data_packet(buffer) ==
    IF Len(buffer) < DATA_HEADER_SIZE \/ get_opcode(buffer) # TFTP_OPCODE_DATA
    THEN [ok |-> FALSE, block_num |-> 0, data |-> <<>>]
    ELSE [ok |-> TRUE, block_num |-> ntohs(buffer, 3),
          data |-> SubSeq(buffer, DATA_HEADER_SIZE + 1, Len(buffer))]

\* mutant of parse_request_packet: a request with bytes after the mode's
\* terminator is refused ("For strictness, return false")
parse_request_packet_mutant(buffer) ==
    LET bad == [ok |-> FALSE, filename |-> <<>>, mode |-> <<>>]
        opcode == get_opcode(buffer)
        filename_end == memchr0(buffer, 3)
        mode_end == memchr0(buffer, filename_end + 1)
    IN  IF opcode # TFTP_OPCODE_RRQ /\ opcode # TFTP_OPCODE_WRQ THEN bad
        ELSE IF Len(buffer) < 6 THEN bad
        ELSE IF filename_end = 0 \/ filename_end = 3 THEN bad
        ELSE IF filename_end + 1 > Len(buffer) THEN bad
        ELSE IF mode_end = 0 \/ mode_end = filename_end + 1 THEN bad
        ELSE IF mode_end # Len(buffer) THEN bad
        ELSE [ok |-> TRUE,
              filename |-> SubSeq(buffer, 3, filename_end - 1),
              mode |-> SubSeq(buffer, filename_end + 1, mode_end - 1)]

parse_request_packet(buffer) ==
    LET bad == [ok |-> FALSE, filename |-> <<>>, mode |-> <<>>]
        opcode == get_opcode(buffer)
        filename_end == memchr0(buffer, 3)
        mode_end == memchr0(buffer, filename_end + 1)
    IN  IF opcode # TFTP_OPCODE_RRQ /\ opcode # TFTP_OPCODE_WRQ THEN bad
        ELSE IF Len(buffer) < 6 THEN bad
        ELSE IF filename_end = 0 \/ filename_end = 3 THEN bad
        ELSE IF filename_end + 1 > Len(buffer) THEN bad
        ELSE IF mode_end = 0 \/ mode_end = filename_end + 1 THEN bad
        ELSE [ok |-> TRUE,
              filename |-> SubSeq(buffer, 3, filename_end - 1),
              mode |-> SubSeq(buffer, filename_end + 1, mode_end - 1)]

parse_error_packet(buffer) ==
    LET msg_end == memchr0(buffer, ERROR_HEADER_SIZE + 1)
    IN  IF Len(buffer) < ERROR_HEADER_SIZE + 1
           \/ get_opcode(buffer) # TFTP_OPCODE_ERROR
        THEN [ok |-> FALSE, error_code |-> 0, error_msg |-> <<>>, terminated |-> FALSE]
        ELSE IF msg_end = 0
        THEN [ok |-> TRUE, error_code |-> ntohs(buffer, 3),
              error_msg |-> MSG_MALFORMED_ERROR, terminated |-> FALSE]
        ELSE [ok |-> TRUE, error_code |-> ntohs(buffer, 3),
              error_msg |-> SubSeq(buffer, ERROR_HEADER_SIZE + 1, msg_end - 1),
              terminated |-> TRUE]

\* mutant of has_traversal: only ".." is looked for
has_traversal_mutant(filename) ==
    \E i \in 1..(Len(filename) - 1) : filename[i] = 46 /\ filename[i + 1] = 46

\* std::string::find of a byte / of ".." in the filename (run_server)
has_traversal(filename) ==
    \/ \E i \in 1..Len(filename) : filename[i] \in {47, 92}
    \/ \E i \in 1..(Len(filename) - 1) : filename[i] = 46 /\ filename[i + 1] = 46

(***************************************************************************)
(* State                                                                   *)
(***************************************************************************)
VARIABLES
    client,     \* the client process: its position and the locals of receive_file / send_file
    runs,       \* client invocations started so far
    localSrc,   \* the client's local file that a put reads
    localOut,   \* the client's local file that a get writes
    server,     \* the server process: its position and the locals of the running handler
    sfiles,     \* the server's directory: file name -> file
    net,        \* datagrams in flight, in arrival order
    csent,      \* history: the datagrams the client sent in its current invocation
    ssent,      \* history: the datagrams the server sent for its current request
    crecv,      \* history: the datagram the client consumed last
    srecv,      \* history: the datagram the server's handler consumed last
    sock,       \* the UDP sockets of client and server transfers: open, closed, and
                \* bad: closed without being open
    codec,      \* a packet, the buffer create_*_packet makes of it, and the fields
                \* parse_*_packet reads from the buffer
    hist        \* history: network faults so far by kind, the opcodes of the datagrams
                \* lost and duplicated, and the server's initial directory

vars ==
    <<client, runs, localSrc, localOut, server, sfiles, net, csent, ssent, crecv, srecv,
      sock, codec, hist>>

\* (ip, port) pairs: sockaddr_in
ListenAddr ==
    [ip |-> "S", port |-> TFTP_DEFAULT_PORT]

\* the ephemeral port of the socket the r-th client invocation creates
ClientAddr(r) ==
    [ip |-> "C", port |-> 49152 + r]

\* mutant of TransferAddr: the server answers from its listening socket
TransferAddr_mutant(k) ==
    ListenAddr

\* the ephemeral port of the k-th transfer socket the server creates
TransferAddr(k) ==
    [ip |-> "S", port |-> 49152 + k]

\* a third party
ForeignAddr ==
    [ip |-> "X", port |-> 49152]

NoAddr ==
    [ip |-> "", port |-> 0]

\* the remote file name the client is given: "n"
RemoteName ==
    <<110>>

\* the names the server's directory is tracked for
ServerNames ==
    {RemoteName}

\* a path of the file system: whether a file exists there, its content, and
\* perm: whether the process may open the file (if it exists) or create one
NoFile ==
    [exists |-> FALSE, data |-> <<>>, perm |-> TRUE]

File(bytes) ==
    [exists |-> TRUE, data |-> bytes, perm |-> TRUE]

\* a file the process has no permission to open
Unreadable(bytes) ==
    [exists |-> TRUE, data |-> bytes, perm |-> FALSE]

\* no file, and none can be created (e.g. the directory is not writable)
Uncreatable ==
    [exists |-> FALSE, data |-> <<>>, perm |-> FALSE]

\* mutant of can_read: the stream is good whenever the process has permission
can_read_mutant(file) ==
    file.perm

\* std::ifstream(filename): the stream is good
can_read(file) ==
    file.exists /\ file.perm

\* std::ofstream(filename, trunc) on a path where no file exists: the stream is good
can_create(file) ==
    file.perm

\* the longest file name the file system takes
NAME_MAX ==
    255

\* std::filesystem::exists(filepath) throws filesystem_error: stat() fails with
\* an error other than "no such file", as it does for a name above NAME_MAX
stat_fails(filename) ==
    Len(filename) > NAME_MAX

\* a file name of NAME_MAX + 1 letters "a"
LongName ==
    [k \in 1..(NAME_MAX + 1) |-> 97]

\* mutant of remove: the partial file is left behind
remove_mutant(file) ==
    file

\* remove(filename) after output_file.close()
remove(file) ==
    NoFile

\* the i-th byte (from 0) of the test pattern with the given seed; the pattern
\* differs from block to block
PatternByte(seed, i) ==
    (seed + i + 37 * (i \div MAX_DATA_SIZE)) % 256

Content(seed, n) ==
    [i \in 1..n |-> PatternByte(seed, i - 1)]

\* lengths of the client's local file: around one block, and MaxBlocks full blocks
FileLens ==
    {0, MAX_DATA_SIZE - 1, MAX_DATA_SIZE, MAX_DATA_SIZE + 1,
     MaxBlocks * MAX_DATA_SIZE}

\* lengths of a file the server holds from the start
ServerLens ==
    {0, MAX_DATA_SIZE - 1, MAX_DATA_SIZE, MAX_DATA_SIZE + 1}

\* header fields of a datagram, for the histories
Hdr(buf) ==
    [op |-> get_opcode(buf),
     num |-> IF Len(buf) >= 4 THEN ntohs(buf, 3) ELSE 0,
     len |-> Len(buf)]

\* n counts the datagrams consumed since the invocation / the request started
NoRecv ==
    [src |-> NoAddr, op |-> 0, num |-> 0, len |-> 0, n |-> 0]

Recv(prev, p) ==
    [src |-> p.src, op |-> Hdr(p.buf).op, num |-> Hdr(p.buf).num, len |-> Len(p.buf),
     n |-> prev.n + 1]

ClientActive ==
    client.pc \notin {"idle", "done"}

ServerActive ==
    server.pc # "listen"

\* a datagram sent to dst reaches a socket (or the third party)
Deliverable(dst) ==
    \/ dst = ListenAddr
    \/ dst = ClientAddr(runs) /\ ClientActive
    \/ dst = TransferAddr(server.socks) /\ ServerActive

\* position in net of the first datagram queued for addr, 0 when there is none
HeadFor(addr) ==
    LET hits == {i \in 1..Len(net) : net[i].dst = addr}
    IN  IF hits = {} THEN 0 ELSE CHOOSE i \in hits : \A j \in hits : i <= j

RemoveAt(s, i) ==
    SubSeq(s, 1, i - 1) \o SubSeq(s, i + 1, Len(s))

Pkt(src, dst, buf) ==
    [src |-> src, dst |-> dst, buf |-> buf]

WireRec(p) ==
    [src |-> p.src, dst |-> p.dst, op |-> Hdr(p.buf).op, num |-> Hdr(p.buf).num,
     len |-> Len(p.buf), buf |-> p.buf]

\* closesocket() on each socket of the set closed
closesocket(s, closed) ==
    [open |-> s.open \ closed,
     closed |-> s.closed \cup closed,
     bad |-> s.bad \cup (closed \ s.open)]

\* sendto() of the datagrams out, in order, after the step consumed
\* net[i]; closed: the socket addresses the step closes, whose queues are discarded.
\* The histories start afresh with a client invocation and with a request.
\* A datagram from an address that has had no socket yet comes from the socket()
\* call that precedes it in the step.
Transmit(i, out, closed) ==
    LET rest == IF i = 0 THEN net ELSE RemoveAt(net, i)
        Reaches(p) == Deliverable(p.dst)
        Open(p) == p.dst \notin closed
        FromClient(p) == p.src.ip = "C"
        FromServer(p) == p.src.ip = "S"
        Log(sel) == [k \in 1..Len(sel) |-> WireRec(sel[k])]
        created == {out[k].src : k \in 1..Len(out)} \ (sock.open \cup sock.closed)
    IN  /\ sock' = closesocket([sock EXCEPT !.open = @ \cup created], closed)
        /\ UNCHANGED codec
        /\ net' = SelectSeq(rest \o SelectSeq(out, Reaches), Open)
        /\ csent' = IF SelectSeq(out, FromClient) = <<>> THEN csent
                     ELSE (IF ClientActive THEN csent ELSE <<>>)
                              \o Log(SelectSeq(out, FromClient))
        /\ ssent' = IF SelectSeq(out, FromServer) = <<>> THEN ssent
                     ELSE (IF ServerActive THEN ssent ELSE <<>>)
                              \o Log(SelectSeq(out, FromServer))

(***************************************************************************)
(* std::ifstream::read(data_buffer, MAX_DATA_SIZE) and gcount()            *)
(***************************************************************************)
\* number of bytes a read at stream position pos extracts (0 at end of file,
\* also on every read after the stream has failed at end of file)
gcount(file, pos) ==
    IF Len(file.data) - pos >= MAX_DATA_SIZE THEN MAX_DATA_SIZE
    ELSE Len(file.data) - pos

read_chunk(file, pos) ==
    SubSeq(file.data, pos + 1, pos + gcount(file, pos))

(***************************************************************************)
(* Initial state                                                           *)
(***************************************************************************)
\* no packet under test
NoCodec ==
    [stage |-> "none", packet |-> <<>>, buffer |-> <<>>, parsed |-> <<>>]

ClientInit ==
    [pc |-> "idle", cmd |-> "none", server_addr |-> NoAddr,
     first_data_packet |-> TRUE, expected_block_num |-> 1,
     current_block_num |-> 1, last_data_sent |-> FALSE, data_packet |-> <<>>,
     in_pos |-> 0, exit |-> -1, past |-> <<>>]

ServerInit ==
    [pc |-> "listen", filename |-> <<>>, client_addr |-> NoAddr, block_num |-> 1,
     bytes_read |-> 0, data_packet |-> <<>>, retry_count |-> 0,
     last_ack_received |-> FALSE, expected_block_num |-> 1, in_pos |-> 0, socks |-> 0, result |-> "none"]

HistInit(dir) ==
    [drop |-> 0, dup |-> 0, foreign |-> 0, late |-> 0, lost |-> {}, duped |-> {},
     dir |-> dir]

Init ==
    /\ client = ClientInit
    /\ runs = 0
    /\ localSrc \in {File(Content(1, n)) : n \in FileLens}
    /\ localOut = NoFile
    /\ server = ServerInit
    /\ sfiles \in [ServerNames -> {NoFile, Uncreatable, Unreadable(Content(2, 1))}
                                      \cup {File(Content(2, n)) : n \in ServerLens}]
    /\ net = <<>>
    /\ csent = <<>>
    /\ ssent = <<>>
    /\ crecv = NoRecv
    /\ srecv = NoRecv
    /\ sock = [open |-> {}, closed |-> {}, bad |-> {}]
    /\ codec = NoCodec
    /\ hist = HistInit(sfiles)

(***************************************************************************)
(* Shared pieces of the handlers                                           *)
(***************************************************************************)
\* mutant of inc16: the counter is wider than 16 bits and does not wrap
inc16_mutant(b) ==
    b + 1

\* uint16_t ++ and --
inc16(b) ==
    (b + 1) % U16

dec16(b) ==
    (b + U16 - 1) % U16

\* mutant of is_short: a full block counts as the last one
is_short_mutant(n) ==
    n <= MAX_DATA_SIZE

\* mutant of is_short: the payload is compared with the header size
is_short_mutant_header(n) ==
    n < DATA_HEADER_SIZE

\* mutant of more_to_send: the do-while never repeats
more_to_send_mutant(bytes_read) ==
    bytes_read > MAX_DATA_SIZE

\* handle_read_request: "while (bytes_read == MAX_DATA_SIZE)"
more_to_send(bytes_read) ==
    bytes_read = MAX_DATA_SIZE

\* "if (data_size < MAX_DATA_SIZE)" / "bytes_read < MAX_DATA_SIZE": a short block
\* ends the transfer
is_short(n) ==
    n < MAX_DATA_SIZE

\* mutant of protocol_error: the Error carries code 0 (not defined)
protocol_error_mutant(msg) ==
    create_error_packet(TFTP_ERROR_NOT_DEFINED, msg)

\* create_error_packet(TFTP_ERROR_ILLEGAL_OPERATION, msg): the Error a
\* receiver of Data sends before it aborts on a block or opcode it cannot
\* accept
protocol_error(msg) ==
    create_error_packet(TFTP_ERROR_ILLEGAL_OPERATION, msg)

\* mutant of duplicate_ack: the Ack carries the number the reader waits for
duplicate_ack_mutant(block_num, expected_block_num) ==
    create_ack_packet(expected_block_num)

\* the Ack a reader waiting for expected_block_num sends for a Data block with a
\* lower number: "create_ack_packet(block_num)"
duplicate_ack(block_num, expected_block_num) ==
    create_ack_packet(block_num)

\* no recvfrom() has a datagram to return: whoever waits now waits in vain
Quiescent ==
    /\ HeadFor(ClientAddr(runs)) = 0
    /\ HeadFor(TransferAddr(server.socks)) = 0
    /\ HeadFor(ListenAddr) = 0 \/ ServerActive

FaultsUsed ==
    hist.drop + hist.dup + hist.foreign + hist.late

\* recvfrom() fails with EAGAIN after DEFAULT_TIMEOUT_SEC: in a quiescent system
\* that is the program's own course; otherwise a datagram is late, a network fault
TimedOut ==
    /\ Quiescent \/ FaultsUsed < MaxFaults
    /\ hist' = IF Quiescent THEN hist ELSE [hist EXCEPT !.late = @ + 1]

\* mutant of ClientEnd: main returns 0 whatever happened
ClientEnd_mutant(c, code) ==
    [c EXCEPT !.pc = "done", !.exit = 0]

\* receive_file / send_file returns (code 0) or throws (code 1) and main returns
ClientEnd(c, code) ==
    [c EXCEPT !.pc = "done", !.exit = code]

\* the locals of a new invocation; past (history) keeps the command and the exit
\* code of every earlier one
ClientFresh ==
    [ClientInit EXCEPT !.past = IF client.pc = "done"
                                THEN Append(client.past,
                                            [cmd |-> client.cmd, exit |-> client.exit])
                                ELSE client.past]

(***************************************************************************)
(* Client: main, receive_file, send_file (tftp_client.cpp)                 *)
(***************************************************************************)
\* main() runs "get" or "put": the code up to the first recvfrom()
ClientStart(cmd) ==
    /\ client.pc \in {"idle", "done"}
    /\ runs < MaxRuns
    /\ runs' = runs + 1
    /\ crecv' = NoRecv
    /\ IF cmd \notin {"get", "put"}
       THEN \* "Invalid command": main returns 1
            /\ client' = [ClientFresh EXCEPT !.pc = "done", !.cmd = cmd, !.exit = 1]
            /\ UNCHANGED localOut
            /\ Transmit(0, <<>>, {})
       ELSE IF cmd = "get"
       THEN /\ client' = [ClientFresh EXCEPT !.pc = "get_wait", !.cmd = "get",
                                            !.server_addr = ListenAddr]
            /\ localOut' = File(<<>>)
            /\ Transmit(0, <<Pkt(ClientAddr(runs + 1), ListenAddr,
                                 create_rrq_packet(RemoteName))>>, {})
       ELSE IF ~localSrc.exists
       THEN /\ client' = [ClientFresh EXCEPT !.pc = "done", !.cmd = "put", !.exit = 1]
            /\ UNCHANGED localOut
            /\ Transmit(0, <<>>, {})
       ELSE /\ client' = [ClientFresh EXCEPT !.pc = "put_ack0", !.cmd = "put",
                                            !.server_addr = ListenAddr]
            /\ UNCHANGED localOut
            /\ Transmit(0, <<Pkt(ClientAddr(runs + 1), ListenAddr,
                                 create_wrq_packet(RemoteName))>>, {})
    /\ UNCHANGED <<localSrc, server, sfiles, srecv, hist>>

\* main() runs "get" or "put" with an argv[1] that inet_pton() refuses:
\* receive_file / send_file creates its socket, closes it and throws "Invalid
\* server address" (send_file has opened its input file before). Nothing is
\* sent, and the local output file of a get is not opened
ClientBadAddress(cmd) ==
    /\ client.pc \in {"idle", "done"}
    /\ runs < MaxRuns
    /\ runs' = runs + 1
    /\ crecv' = NoRecv
    /\ client' = [ClientFresh EXCEPT !.pc = "done", !.cmd = cmd, !.exit = 1]
    /\ sock' = IF cmd = "put" /\ ~can_read(localSrc)
               THEN sock
               ELSE closesocket([sock EXCEPT !.open = @ \cup {ClientAddr(runs + 1)}],
                                {ClientAddr(runs + 1)})
    /\ UNCHANGED <<localSrc, localOut, server, sfiles, net, csent, ssent, srecv, codec, hist>>

\* receive_file: one pass of "while (!transfer_complete)" on a received datagram
ClientGetRecv ==
    LET self == ClientAddr(runs)
        i == HeadFor(self)
        p == net[i]
        \* the first datagram received binds the peer, whatever it is
        peer == IF client.first_data_packet THEN p.src ELSE client.server_addr
        c0 == [client EXCEPT !.server_addr = peer, !.first_data_packet = FALSE]
        opcode == get_opcode(p.buf)
        d == parse_data_packet(p.buf)
        ack == Pkt(self, peer, create_ack_packet(d.block_num))
        err == Pkt(self, peer, protocol_error(MSG_UNEXPECTED_BLOCK))
    IN  /\ client.pc = "get_wait"
        /\ i # 0
        /\ crecv' = Recv(crecv, p)
        /\ IF ~client.first_data_packet /\ p.src # client.server_addr
           THEN \* unexpected source: ignored
                /\ client' = c0
                /\ UNCHANGED localOut
                /\ Transmit(i, <<>>, {})
           ELSE IF opcode = TFTP_OPCODE_DATA /\ ~d.ok
           THEN \* malformed DATA: ignored
                /\ client' = c0
                /\ UNCHANGED localOut
                /\ Transmit(i, <<>>, {})
           ELSE IF opcode = TFTP_OPCODE_DATA /\ d.block_num = client.expected_block_num
           THEN /\ localOut' = File(localOut.data \o d.data)
                /\ IF is_short(Len(d.data))
                   THEN /\ client' = ClientEnd(c0, 0)
                        /\ Transmit(i, <<ack>>, {self})
                   ELSE /\ client' = [c0 EXCEPT !.expected_block_num = inc16(@)]
                        /\ Transmit(i, <<ack>>, {})
           ELSE IF opcode = TFTP_OPCODE_DATA /\ d.block_num < client.expected_block_num
           THEN \* duplicate: acknowledged again
                /\ client' = c0
                /\ UNCHANGED localOut
                /\ Transmit(i, <<Pkt(self, peer, duplicate_ack(d.block_num,
                                                               client.expected_block_num))>>,
                            {})
           ELSE IF opcode = TFTP_OPCODE_DATA
           THEN \* block number higher than expected
                /\ client' = ClientEnd(c0, 1)
                /\ localOut' = remove(localOut)
                /\ Transmit(i, <<err>>, {self})
           ELSE IF opcode = TFTP_OPCODE_ERROR
           THEN /\ client' = ClientEnd(c0, 1)
                /\ localOut' = remove(localOut)
                /\ Transmit(i, <<>>, {self})
           ELSE \* any other opcode: ignored
                /\ client' = c0
                /\ UNCHANGED localOut
                /\ Transmit(i, <<>>, {})
        /\ UNCHANGED <<runs, localSrc, server, sfiles, srecv, hist>>

\* receive_file: recvfrom() fails; the partial file is removed, the client throws
ClientGetTimeout ==
    /\ client.pc = "get_wait"
    /\ TimedOut
    /\ client' = ClientEnd(client, 1)
    /\ localOut' = remove(localOut)
    /\ Transmit(0, <<>>, {ClientAddr(runs)})
    /\ UNCHANGED <<runs, localSrc, server, sfiles, crecv, srecv>>

\* send_file: the head of "while (!last_data_sent)": read the next chunk, send it
\* as block current_block_num, note whether it was the last
PutSend(c) ==
    LET n == gcount(localSrc, c.in_pos)
    IN  [c EXCEPT !.pc = "put_wait",
                  !.data_packet = create_data_packet(c.current_block_num,
                                                     read_chunk(localSrc, c.in_pos)),
                  !.in_pos = c.in_pos + n,
                  !.last_data_sent = is_short(n)]

PutData(c) ==
    Pkt(ClientAddr(runs), c.server_addr, c.data_packet)

\* send_file: the reply to the WRQ
ClientPutAck0Recv ==
    LET self == ClientAddr(runs)
        i == HeadFor(self)
        p == net[i]
        c0 == [client EXCEPT !.server_addr = p.src]
        a == parse_ack_packet(p.buf)
        c1 == PutSend(c0)
    IN  /\ client.pc = "put_ack0"
        /\ i # 0
        /\ crecv' = Recv(crecv, p)
        /\ IF get_opcode(p.buf) = TFTP_OPCODE_ACK /\ a.ok /\ a.block_num = 0
           THEN /\ client' = c1
                /\ Transmit(i, <<PutData(c1)>>, {})
           ELSE \* ACK of another block, malformed ACK, ERROR, anything else
                /\ client' = ClientEnd(c0, 1)
                /\ Transmit(i, <<>>, {self})
        /\ UNCHANGED <<runs, localSrc, localOut, server, sfiles, srecv, hist>>

\* send_file: no reply to the WRQ
ClientPutAck0Timeout ==
    /\ client.pc = "put_ack0"
    /\ TimedOut
    /\ client' = ClientEnd(client, 1)
    /\ Transmit(0, <<>>, {ClientAddr(runs)})
    /\ UNCHANGED <<runs, localSrc, localOut, server, sfiles, crecv, srecv>>

\* send_file: a datagram arrives while waiting for the ACK of the block sent
ClientPutRecv ==
    LET self == ClientAddr(runs)
        i == HeadFor(self)
        p == net[i]
        a == parse_ack_packet(p.buf)
        opcode == get_opcode(p.buf)
        \* "current_block_num--; last_data_sent = false; continue;"
        back == PutSend([client EXCEPT !.current_block_num = dec16(@),
                                       !.last_data_sent = FALSE])
        \* "current_block_num++", then the loop test
        fwd == [client EXCEPT !.current_block_num = inc16(@)]
        next == PutSend(fwd)
    IN  /\ client.pc \in {"put_wait", "put_rewait"}
        /\ i # 0
        /\ crecv' = Recv(crecv, p)
        /\ IF p.src # client.server_addr
           THEN /\ client' = back
                /\ Transmit(i, <<PutData(back)>>, {})
           ELSE IF opcode = TFTP_OPCODE_ACK /\ a.ok
                   /\ a.block_num = client.current_block_num
           THEN IF client.last_data_sent
                THEN /\ client' = ClientEnd(fwd, 0)
                     /\ Transmit(i, <<>>, {self})
                ELSE /\ client' = next
                     /\ Transmit(i, <<PutData(next)>>, {})
           ELSE IF opcode = TFTP_OPCODE_ACK /\ a.ok
                   /\ a.block_num < client.current_block_num
           THEN /\ client' = back
                /\ Transmit(i, <<PutData(back)>>, {})
           ELSE \* ACK of a future block, malformed ACK, ERROR, anything else
                /\ client' = ClientEnd(client, 1)
                /\ Transmit(i, <<>>, {self})
        /\ UNCHANGED <<runs, localSrc, localOut, server, sfiles, srecv, hist>>

\* send_file: the first timeout for a block resends data_packet and waits again
ClientPutTimeout ==
    /\ client.pc = "put_wait"
    /\ TimedOut
    /\ client' = [client EXCEPT !.pc = "put_rewait"]
    /\ Transmit(0, <<PutData(client)>>, {})
    /\ UNCHANGED <<runs, localSrc, localOut, server, sfiles, crecv, srecv>>

\* send_file: the second timeout in a row aborts
ClientPutRetryTimeout ==
    /\ client.pc = "put_rewait"
    /\ TimedOut
    /\ client' = ClientEnd(client, 1)
    /\ Transmit(0, <<>>, {ClientAddr(runs)})
    /\ UNCHANGED <<runs, localSrc, localOut, server, sfiles, crecv, srecv>>

(***************************************************************************)
(* Server: run_server, handle_read_request, handle_write_request           *)
(* (tftp_server.cpp)                                                       *)
(***************************************************************************)
\* mutant of ServerEnd: the handler notes the outcome and stays in its loop
ServerEnd_mutant(sv, result) ==
    [sv EXCEPT !.result = result]

\* the handler ends (returns or throws): back to run_server's loop
ServerEnd(sv, result) ==
    [sv EXCEPT !.pc = "listen", !.result = result]

\* the file the server's directory holds under a name
Lookup(filename) ==
    IF filename \in ServerNames THEN sfiles[filename] ELSE NoFile

\* handle_read_request: the head of the do-while: read the next chunk and send it
\* as block block_num; the retry count starts at 0
RrqSend(sv) ==
    LET f == Lookup(sv.filename)
        n == gcount(f, sv.in_pos)
    IN  [sv EXCEPT !.pc = "rrq_wait",
                   !.bytes_read = n,
                   !.data_packet = create_data_packet(sv.block_num,
                                                      read_chunk(f, sv.in_pos)),
                   !.in_pos = sv.in_pos + n,
                   !.retry_count = 0]

RrqData(sv) ==
    Pkt(TransferAddr(sv.socks), sv.client_addr, sv.data_packet)

\* run_server: one pass of "while (true)" on a datagram received on the listening
\* socket, up to the first recvfrom() of the handler it calls
ServerListenRecv ==
    LET i == HeadFor(ListenAddr)
        p == net[i]
        k == server.socks + 1
        self == TransferAddr(k)
        req == parse_request_packet(p.buf)
        sv0 == [ServerInit EXCEPT !.socks = k, !.client_addr = p.src,
                                  !.filename = req.filename]
        Refuse(code, msg) ==
            /\ server' = ServerEnd(sv0, "refused")
            /\ UNCHANGED sfiles
            /\ Transmit(i, <<Pkt(self, p.src, create_error_packet(code, msg))>>, {self})
        rrq == RrqSend(sv0)
    IN  /\ server.pc = "listen"
        /\ i # 0
        /\ srecv' = NoRecv
        /\ IF ~req.ok
           THEN Refuse(TFTP_ERROR_ILLEGAL_OPERATION, MSG_MALFORMED_REQUEST)
           ELSE IF has_traversal(req.filename)
           THEN Refuse(TFTP_ERROR_ACCESS_VIOLATION, MSG_INVALID_FILENAME)
           ELSE IF lower(req.mode) # OCTET
           THEN Refuse(TFTP_ERROR_ILLEGAL_OPERATION, MSG_UNSUPPORTED_MODE)
           ELSE IF get_opcode(p.buf) = TFTP_OPCODE_RRQ
           THEN \* handle_read_request
                IF ~can_read(Lookup(req.filename))
                THEN Refuse(TFTP_ERROR_FILE_NOT_FOUND, MSG_FILE_NOT_FOUND)
                ELSE /\ server' = rrq
                     /\ UNCHANGED sfiles
                     /\ Transmit(i, <<RrqData(rrq)>>, {})
           ELSE \* handle_write_request
                IF stat_fails(req.filename)
                THEN \* exists() throws before anything is sent or closed; run_server
                     \* catches and goes on, transfer_sock stays open
                     /\ server' = ServerEnd(sv0, "aborted")
                     /\ net' = RemoveAt(net, i)
                     /\ sock' = [sock EXCEPT !.open = @ \cup {self}]
                     /\ ssent' = <<>>
                     /\ UNCHANGED <<sfiles, csent, codec>>
                ELSE IF Lookup(req.filename).exists
                THEN Refuse(TFTP_ERROR_FILE_ALREADY_EXISTS, MSG_FILE_EXISTS)
                ELSE IF ~can_create(Lookup(req.filename))
                THEN Refuse(TFTP_ERROR_ACCESS_VIOLATION, MSG_CANNOT_WRITE)
                ELSE /\ server' = [sv0 EXCEPT !.pc = "wrq_wait"]
                     /\ sfiles' = [sfiles EXCEPT ![req.filename] = File(<<>>)]
                     /\ Transmit(i, <<Pkt(self, p.src, create_ack_packet(0))>>, {})
        /\ UNCHANGED <<client, runs, localSrc, localOut, crecv, hist>>

\* handle_read_request: a datagram arrives while waiting for the ACK of block_num
ServerRRQRecv ==
    LET self == TransferAddr(server.socks)
        i == HeadFor(self)
        p == net[i]
        \* recvfrom() stores the source of every datagram in client_addr
        sv0 == [server EXCEPT !.client_addr = p.src]
        opcode == get_opcode(p.buf)
        a == parse_ack_packet(p.buf)
        \* "last_ack_received = true; break;", then "block_num++" and the loop test
        fwd == [sv0 EXCEPT !.block_num = inc16(@), !.last_ack_received = TRUE]
        next == RrqSend(fwd)
    IN  /\ server.pc = "rrq_wait"
        /\ i # 0
        /\ srecv' = Recv(srecv, p)
        /\ IF opcode = TFTP_OPCODE_ACK /\ a.ok /\ a.block_num = server.block_num
           THEN IF more_to_send(server.bytes_read)
                THEN /\ server' = next
                     /\ Transmit(i, <<RrqData(next)>>, {})
                ELSE /\ server' = ServerEnd(fwd, "success")
                     /\ Transmit(i, <<>>, {self})
           ELSE IF opcode = TFTP_OPCODE_ACK /\ a.ok /\ a.block_num > server.block_num
           THEN \* ACK of a future block: throws
                /\ server' = ServerEnd(sv0, "aborted")
                /\ Transmit(i, <<>>, {self})
           ELSE IF opcode = TFTP_OPCODE_ERROR
           THEN /\ server' = ServerEnd(sv0, "aborted")
                /\ Transmit(i, <<>>, {self})
           ELSE \* old ACK, malformed ACK, any other opcode: ignored, wait again
                /\ server' = sv0
                /\ Transmit(i, <<>>, {})
        /\ UNCHANGED <<client, runs, localSrc, localOut, sfiles, crecv, hist>>

\* handle_read_request: recvfrom() times out: count and resend data_packet. When
\* retry_count reaches MAX_RETRIES the retry loop ends: last_ack_received, set
\* by the ACK of any earlier block and never reset, decides whether the handler
\* throws or goes on as if the block had been acknowledged
ServerRRQTimeout ==
    LET self == TransferAddr(server.socks)
        sv1 == [server EXCEPT !.retry_count = @ + 1]
        fwd == [sv1 EXCEPT !.block_num = inc16(@)]
        next == RrqSend(fwd)
    IN  /\ server.pc = "rrq_wait"
        /\ TimedOut
        /\ IF sv1.retry_count < MAX_RETRIES
           THEN /\ server' = sv1
                /\ Transmit(0, <<RrqData(server)>>, {})
           ELSE IF ~server.last_ack_received
           THEN /\ server' = ServerEnd(sv1, "aborted")
                /\ Transmit(0, <<RrqData(server)>>, {self})
           ELSE IF more_to_send(server.bytes_read)
           THEN /\ server' = next
                /\ Transmit(0, <<RrqData(server), RrqData(next)>>, {})
           ELSE /\ server' = ServerEnd(fwd, "success")
                /\ Transmit(0, <<RrqData(server)>>, {self})
        /\ UNCHANGED <<client, runs, localSrc, localOut, sfiles, crecv, srecv>>

\* handle_write_request: one pass of "while (!transfer_complete)" on a datagram
ServerWRQRecv ==
    LET self == TransferAddr(server.socks)
        i == HeadFor(self)
        p == net[i]
        sv0 == [server EXCEPT !.client_addr = p.src]
        opcode == get_opcode(p.buf)
        d == parse_data_packet(p.buf)
        ack == Pkt(self, p.src, create_ack_packet(d.block_num))
        Abort(out) ==
            /\ server' = ServerEnd(sv0, "aborted")
            /\ sfiles' = [sfiles EXCEPT ![server.filename] = remove(@)]
            /\ Transmit(i, out, {self})
        Error(msg) ==
            <<Pkt(self, p.src, protocol_error(msg))>>
    IN  /\ server.pc = "wrq_wait"
        /\ i # 0
        /\ srecv' = Recv(srecv, p)
        /\ IF opcode = TFTP_OPCODE_DATA /\ ~d.ok
           THEN Abort(Error(MSG_MALFORMED_DATA))
           ELSE IF opcode = TFTP_OPCODE_DATA /\ d.block_num = server.expected_block_num
           THEN /\ sfiles' = [sfiles EXCEPT ![server.filename] =
                                 File(@.data \o d.data)]
                /\ IF is_short(Len(d.data))
                   THEN /\ server' = ServerEnd(sv0, "success")
                        /\ Transmit(i, <<ack>>, {self})
                   ELSE /\ server' = [sv0 EXCEPT !.expected_block_num = inc16(@)]
                        /\ Transmit(i, <<ack>>, {})
           ELSE IF opcode = TFTP_OPCODE_DATA /\ d.block_num < server.expected_block_num
           THEN \* duplicate: acknowledged again
                /\ server' = sv0
                /\ UNCHANGED sfiles
                /\ Transmit(i, <<Pkt(self, p.src, duplicate_ack(d.block_num,
                                                                server.expected_block_num))>>,
                            {})
           ELSE IF opcode = TFTP_OPCODE_DATA
           THEN Abort(Error(MSG_UNEXPECTED_BLOCK))
           ELSE IF opcode = TFTP_OPCODE_ERROR
           THEN Abort(<<>>)
           ELSE Abort(Error(MSG_UNEXPECTED_TYPE))
        /\ UNCHANGED <<client, runs, localSrc, localOut, crecv, hist>>

\* handle_write_request: recvfrom() fails: the partial file is removed, it throws
ServerWRQTimeout ==
    /\ server.pc = "wrq_wait"
    /\ TimedOut
    /\ server' = ServerEnd(server, "aborted")
    /\ sfiles' = [sfiles EXCEPT ![server.filename] = remove(@)]
    /\ Transmit(0, <<>>, {TransferAddr(server.socks)})
    /\ UNCHANGED <<client, runs, localSrc, localOut, crecv, srecv>>

(***************************************************************************)
(* The network: UDP between the hosts, and a third party                   *)
(***************************************************************************)
\* a datagram in flight is lost
Drop(i) ==
    /\ FaultsUsed < MaxFaults
    /\ net' = RemoveAt(net, i)
    /\ hist' = [hist EXCEPT !.drop = @ + 1, !.lost = @ \cup {get_opcode(net[i].buf)}]
    /\ UNCHANGED <<client, runs, localSrc, localOut, server, sfiles, csent, ssent, crecv,
                   srecv, sock, codec>>

\* a datagram in flight is delivered twice
Duplicate(i) ==
    /\ FaultsUsed < MaxFaults
    /\ net' = Append(net, net[i])
    /\ hist' = [hist EXCEPT !.dup = @ + 1, !.duped = @ \cup {get_opcode(net[i].buf)}]
    /\ UNCHANGED <<client, runs, localSrc, localOut, server, sfiles, csent, ssent, crecv,
                   srecv, sock, codec>>

\* what the third party sends to a transfer: an ACK of block 1, the ACKs of
\* blocks 0 and 1 with one byte too many, Data{7} with no payload, Data{1} with
\* one byte "x", or an Error
ForeignPackets ==
    {create_ack_packet(1), create_ack_packet(0) \o <<0>>, create_ack_packet(1) \o <<0>>,
     create_data_packet(7, <<>>), create_data_packet(1, <<120>>),
     create_error_packet(TFTP_ERROR_NOT_DEFINED, <<>>)}

\* a request datagram with any mode: create_rrq_packet / create_wrq_packet with
\* the mode argument given
create_request_packet(opcode, filename, mode) ==
    htons(opcode) \o filename \o <<0>> \o mode \o <<0>>

\* "netascii", "NetAscii", "OCTET"
NETASCII ==
    <<110, 101, 116, 97, 115, 99, 105, 105>>

NETASCII_MIXED ==
    <<78, 101, 116, 65, 115, 99, 105, 105>>

OCTET_UPPER ==
    <<79, 67, 84, 69, 84>>

\* what the third party sends to the server's well-known port: requests with
\* another mode, with "..", "/" or "\" in the file name, with the mode in upper
\* case, a WRQ with a name above NAME_MAX, a request without a mode, and a
\* datagram that is no request
ForeignRequests ==
    {create_request_packet(TFTP_OPCODE_RRQ, RemoteName, NETASCII),
     create_request_packet(TFTP_OPCODE_WRQ, <<46, 46>>, NETASCII_MIXED),
     create_request_packet(TFTP_OPCODE_WRQ, <<47, 110>>, OCTET),
     create_request_packet(TFTP_OPCODE_RRQ, <<110, 92, 110>>, OCTET),
     create_request_packet(TFTP_OPCODE_RRQ, <<46, 46, 110>>, OCTET),
     create_request_packet(TFTP_OPCODE_RRQ, RemoteName, OCTET_UPPER),
     create_request_packet(TFTP_OPCODE_WRQ, LongName, OCTET),
     htons(TFTP_OPCODE_RRQ) \o RemoteName \o <<0>>,
     create_ack_packet(0)}

\* the third party sends a datagram to the server's well-known port
ForeignRequest(buf) ==
    /\ FaultsUsed < MaxFaults
    /\ net' = Append(net, Pkt(ForeignAddr, ListenAddr, buf))
    /\ hist' = [hist EXCEPT !.foreign = @ + 1]
    /\ UNCHANGED <<client, runs, localSrc, localOut, server, sfiles, csent, ssent, crecv,
                   srecv, sock, codec>>

\* the third party sends a datagram to the socket of a running transfer
ForeignSend(dst, buf) ==
    /\ FaultsUsed < MaxFaults
    /\ dst # ListenAddr
    /\ Deliverable(dst)
    /\ net' = Append(net, Pkt(ForeignAddr, dst, buf))
    /\ hist' = [hist EXCEPT !.foreign = @ + 1]
    /\ UNCHANGED <<client, runs, localSrc, localOut, server, sfiles, csent, ssent, crecv,
                   srecv, sock, codec>>

(***************************************************************************)
(* Specifications                                                          *)
(***************************************************************************)
\* the program on a network that delivers every datagram once, in time
NextReliable ==
    \/ \E cmd \in {"get", "put"} : ClientStart(cmd)
    \/ ClientGetRecv
    \/ ClientPutAck0Recv
    \/ ClientPutRecv
    \/ ServerListenRecv
    \/ ServerRRQRecv
    \/ ServerWRQRecv

SpecReliable ==
    Init /\ [][NextReliable]_vars

\* argv[2] of the client: the two commands and one that is none
Commands ==
    {"get", "put", "del"}

\* the program on a network that may lose, duplicate and delay datagrams and
\* carries a third party's datagrams (MaxFaults faults in all)
Next ==
    \/ \E cmd \in Commands : ClientStart(cmd)
    \/ ClientGetRecv
    \/ ClientGetTimeout
    \/ ClientPutAck0Recv
    \/ ClientPutAck0Timeout
    \/ ClientPutRecv
    \/ ClientPutTimeout
    \/ ClientPutRetryTimeout
    \/ ServerListenRecv
    \/ ServerRRQRecv
    \/ ServerRRQTimeout
    \/ ServerWRQRecv
    \/ ServerWRQTimeout
    \/ \E i \in 1..Len(net) : Drop(i)
    \/ \E i \in 1..Len(net) : Duplicate(i)
    \/ \E dst \in {ClientAddr(runs), TransferAddr(server.socks)} :
          \E buf \in ForeignPackets : ForeignSend(dst, buf)
    \/ \E buf \in ForeignRequests : ForeignRequest(buf)

Spec ==
    Init /\ [][Next]_vars

\* a step of the client process: its recvfrom() returns a datagram or times out
ClientStep ==
    \/ ClientGetRecv
    \/ ClientGetTimeout
    \/ ClientPutAck0Recv
    \/ ClientPutAck0Timeout
    \/ ClientPutRecv
    \/ ClientPutTimeout
    \/ ClientPutRetryTimeout

\* a step of a server handler: its recvfrom() returns a datagram or times out
ServerStep ==
    \/ ServerRRQRecv
    \/ ServerRRQTimeout
    \/ ServerWRQRecv
    \/ ServerWRQTimeout

\* run_server waits in recvfrom() while a datagram is queued on its socket
ListenPending ==
    server.pc = "listen" /\ HeadFor(ListenAddr) # 0

\* both processes run: a recvfrom() that can return does return, in the client,
\* in a handler of the server, and in run_server, which does not leave a queued
\* datagram waiting forever. The faults of the network are finitely many
\* (MaxFaults)
SpecLive ==
    Spec /\ WF_vars(ClientStep) /\ WF_vars(ServerStep) /\ []<>(~ListenPending)

(***************************************************************************)
(* The codec alone: a packet is encoded, the buffer is parsed               *)
(***************************************************************************)
\* a packet of any of the five kinds; the fields its kind does not have are empty
PacketOf(opcode, filename, mode, block_num, data, error_code, error_msg) ==
    [opcode |-> opcode, filename |-> filename, mode |-> mode, block_num |-> block_num,
     data |-> data, error_code |-> error_code, error_msg |-> error_msg]

\* file names and modes of requests: not empty, without a zero byte
CodecNames ==
    {RemoteName, <<110, 46, 116>>, <<255, 47>>}

CodecModes ==
    {OCTET, OCTET_UPPER, NETASCII, <<120>>}

\* block numbers: the ends of the range and both sides of a byte boundary
CodecBlocks ==
    {0, 1, 255, 256, U16 - 1}

\* payloads of 0..MAX_DATA_SIZE bytes, zero bytes among them
CodecPayloads ==
    {<<>>, <<0>>, <<0, 255, 0>>, Content(1, MAX_DATA_SIZE)}

\* error messages without a zero byte, the empty one among them
CodecMessages ==
    {<<>>, MSG_FILE_NOT_FOUND, <<255>>}

Packets ==
    {PacketOf(op, f, m, 0, <<>>, 0, <<>>) :
        op \in {TFTP_OPCODE_RRQ, TFTP_OPCODE_WRQ}, f \in CodecNames, m \in CodecModes}
    \cup {PacketOf(TFTP_OPCODE_DATA, <<>>, <<>>, b, d, 0, <<>>) :
              b \in CodecBlocks, d \in CodecPayloads}
    \cup {PacketOf(TFTP_OPCODE_ACK, <<>>, <<>>, b, <<>>, 0, <<>>) : b \in CodecBlocks}
    \cup {PacketOf(TFTP_OPCODE_ERROR, <<>>, <<>>, 0, <<>>, e, msg) :
              e \in TFTP_ERROR_NOT_DEFINED..TFTP_ERROR_FILE_ALREADY_EXISTS + 1,
              msg \in CodecMessages}

\* the create_*_packet function of the packet's kind
EncodePacket(P) ==
    IF P.opcode \in {TFTP_OPCODE_RRQ, TFTP_OPCODE_WRQ}
    THEN create_request_packet(P.opcode, P.filename, P.mode)
    ELSE IF P.opcode = TFTP_OPCODE_DATA THEN create_data_packet(P.block_num, P.data)
    ELSE IF P.opcode = TFTP_OPCODE_ACK THEN create_ack_packet(P.block_num)
    ELSE create_error_packet(P.error_code, P.error_msg)

\* get_opcode and the parse_*_packet function of that opcode, as the receiving
\* code calls them; ok: the parser returned true
ParsePacket(buffer) ==
    LET opcode == get_opcode(buffer)
        req == parse_request_packet(buffer)
        d == parse_data_packet(buffer)
        a == parse_ack_packet(buffer)
        e == parse_error_packet(buffer)
    IN  IF opcode \in {TFTP_OPCODE_RRQ, TFTP_OPCODE_WRQ}
        THEN [ok |-> req.ok,
              packet |-> PacketOf(opcode, req.filename, req.mode, 0, <<>>, 0, <<>>)]
        ELSE IF opcode = TFTP_OPCODE_DATA
        THEN [ok |-> d.ok,
              packet |-> PacketOf(opcode, <<>>, <<>>, d.block_num, d.data, 0, <<>>)]
        ELSE IF opcode = TFTP_OPCODE_ACK
        THEN [ok |-> a.ok,
              packet |-> PacketOf(opcode, <<>>, <<>>, a.block_num, <<>>, 0, <<>>)]
        ELSE [ok |-> e.ok /\ opcode = TFTP_OPCODE_ERROR,
              packet |-> PacketOf(opcode, <<>>, <<>>, 0, <<>>, e.error_code, e.error_msg)]

InitCodec ==
    /\ client = ClientInit
    /\ runs = 0
    /\ localSrc = File(<<>>)
    /\ localOut = NoFile
    /\ server = ServerInit
    /\ sfiles = [n \in ServerNames |-> NoFile]
    /\ net = <<>>
    /\ csent = <<>>
    /\ ssent = <<>>
    /\ crecv = NoRecv
    /\ srecv = NoRecv
    /\ sock = [open |-> {}, closed |-> {}, bad |-> {}]
    /\ codec \in {[NoCodec EXCEPT !.stage = "packet", !.packet = P] : P \in Packets}
    /\ hist = HistInit(sfiles)

\* the sender builds the datagram
CodecEncode ==
    /\ codec.stage = "packet"
    /\ codec' = [codec EXCEPT !.stage = "encoded", !.buffer = EncodePacket(codec.packet)]
    /\ UNCHANGED <<client, runs, localSrc, localOut, server, sfiles, net, csent, ssent,
                   crecv, srecv, sock, hist>>

\* the receiver parses the datagram
CodecParse ==
    /\ codec.stage = "encoded"
    /\ codec' = [codec EXCEPT !.stage = "parsed", !.parsed = ParsePacket(codec.buffer)]
    /\ UNCHANGED <<client, runs, localSrc, localOut, server, sfiles, net, csent, ssent,
                   crecv, srecv, sock, hist>>

NextCodec ==
    \/ CodecEncode
    \/ CodecParse

SpecCodec ==
    InitCodec /\ [][NextCodec]_vars

\* the program as in Spec, with an argv[1] of the client that may also be a
\* string inet_pton() refuses
NextAddr ==
    \/ Next
    \/ \E cmd \in {"get", "put"} : ClientBadAddress(cmd)

SpecAddr ==
    Init /\ [][NextAddr]_vars

(***************************************************************************)
(* The parsers on any Error datagram                                       *)
(***************************************************************************)
\* datagrams a receiver may get in place of an Error: the opcode, a code, a
\* message (none, "x", "xy"), its terminator or none, and bytes after it (none,
\* "x", "x" and a zero)
ErrorBuffers ==
    {htons(TFTP_OPCODE_ERROR) \o htons(e) \o msg \o sep \o trail :
        e \in {TFTP_ERROR_NOT_DEFINED, TFTP_ERROR_FILE_NOT_FOUND, TFTP_ERROR_ILLEGAL_OPERATION,
               U16 - 1},
        msg \in {<<>>, <<120>>, <<120, 121>>},
        sep \in {<<0>>, <<>>},
        trail \in {<<>>, <<120>>, <<120, 0>>}}

\* a datagram has been received and is about to be parsed
InitParse ==
    /\ client = ClientInit
    /\ runs = 0
    /\ localSrc = File(<<>>)
    /\ localOut = NoFile
    /\ server = ServerInit
    /\ sfiles = [n \in ServerNames |-> NoFile]
    /\ net = <<>>
    /\ csent = <<>>
    /\ ssent = <<>>
    /\ crecv = NoRecv
    /\ srecv = NoRecv
    /\ sock = [open |-> {}, closed |-> {}, bad |-> {}]
    /\ codec \in {[NoCodec EXCEPT !.stage = "encoded", !.buffer = buf] : buf \in ErrorBuffers}
    /\ hist = HistInit(sfiles)

NextParse ==
    CodecParse

SpecParse ==
    InitParse /\ [][NextParse]_vars

(***************************************************************************)
(* A writer and a peer that sends any Ack                                  *)
(***************************************************************************)
\* datagrams with opcode 4 a peer of another make may send: an Ack of block 0,
\* 1 or 2, as it is or with bytes after it, and one cut short
AckBuffers ==
    {create_ack_packet(b) \o trail :
        b \in 0..2, trail \in {<<>>, <<0>>, <<0, 0>>, <<120>>}}
    \cup {<<0, TFTP_OPCODE_ACK, 0>>, htons(TFTP_OPCODE_ACK)}

\* send_file after the WRQ is sent
AckPut0 ==
    [ClientInit EXCEPT !.pc = "put_ack0", !.cmd = "put", !.server_addr = ListenAddr]

\* send_file after Ack{0} from the peer's transfer port: Data{1} read and sent
AckPut ==
    PutSend([ClientInit EXCEPT !.cmd = "put", !.server_addr = TransferAddr(1)])

\* handle_read_request for the peer's RRQ: Data{1} read and sent
AckRrq ==
    RrqSend([ServerInit EXCEPT !.filename = RemoteName, !.client_addr = ClientAddr(1),
                               !.socks = 1])

\* one of the program's writers waits for an Ack, and a datagram of its peer
\* has arrived: the client after its WRQ, the client after Data{1}, or the
\* server after Data{1}. The peer is not this program
InitAck ==
    /\ runs = 1
    /\ codec = NoCodec
    /\ crecv = NoRecv
    /\ srecv = NoRecv
    /\ localOut = NoFile
    /\ \E n \in FileLens, buf \in AckBuffers :
           \/ /\ localSrc = File(Content(1, n))
              /\ sfiles = [f \in ServerNames |-> NoFile]
              /\ client = AckPut0
              /\ server = ServerInit
              /\ sock = [open |-> {ClientAddr(1)}, closed |-> {}, bad |-> {}]
              /\ net = <<Pkt(TransferAddr(1), ClientAddr(1), buf)>>
              /\ csent = <<WireRec(Pkt(ClientAddr(1), ListenAddr,
                                       create_wrq_packet(RemoteName)))>>
              /\ ssent = <<>>
           \/ /\ localSrc = File(Content(1, n))
              /\ sfiles = [f \in ServerNames |-> NoFile]
              /\ client = AckPut
              /\ server = ServerInit
              /\ sock = [open |-> {ClientAddr(1)}, closed |-> {}, bad |-> {}]
              /\ net = <<Pkt(TransferAddr(1), ClientAddr(1), buf)>>
              /\ csent = <<WireRec(PutData(client))>>
              /\ ssent = <<>>
           \/ /\ localSrc = File(<<>>)
              /\ sfiles = [f \in ServerNames |-> File(Content(2, n))]
              /\ client = ClientInit
              /\ server = AckRrq
              /\ sock = [open |-> {TransferAddr(1)}, closed |-> {}, bad |-> {}]
              /\ net = <<Pkt(ClientAddr(1), TransferAddr(1), buf)>>
              /\ csent = <<>>
              /\ ssent = <<WireRec(RrqData(server))>>
    /\ hist = HistInit(sfiles)

\* the writer takes the datagram
NextAck ==
    \/ ClientPutAck0Recv
    \/ ClientPutRecv
    \/ ServerRRQRecv

SpecAck ==
    InitAck /\ [][NextAck]_vars

(***************************************************************************)
(* The dispatcher on any datagram                                          *)
(***************************************************************************)
\* datagrams a third party sends to the server's port: two opcode bytes (RRQ,
\* WRQ, DATA, 0, 257) or fewer, a file name (none, "n", "nn"), its terminator
\* or none, a mode (none, "octet", "OCTET", "netascii", "n"), its terminator or
\* none, and bytes after it (none, a zero, "x", "x" and a zero)
RequestBuffers ==
    {op \o name \o sep1 \o mode \o sep2 \o trail :
        op \in {htons(TFTP_OPCODE_RRQ), htons(TFTP_OPCODE_WRQ), htons(TFTP_OPCODE_DATA),
                <<0, 0>>, <<1, 1>>, <<0>>, <<>>},
        name \in {<<>>, RemoteName, RemoteName \o RemoteName},
        sep1 \in {<<0>>, <<>>},
        mode \in {<<>>, OCTET, OCTET_UPPER, NETASCII, RemoteName},
        sep2 \in {<<0>>, <<>>},
        trail \in {<<>>, <<0>>, <<120>>, <<120, 0>>}}

\* run_server waits on its listening socket, and one datagram of a third party
\* has arrived there; codec keeps the datagram
InitRequest ==
    /\ client = ClientInit
    /\ runs = 0
    /\ localSrc = File(<<>>)
    /\ localOut = NoFile
    /\ server = ServerInit
    /\ sfiles = [n \in ServerNames |-> File(Content(2, 1))]
    /\ \E buf \in RequestBuffers :
           /\ net = <<Pkt(ForeignAddr, ListenAddr, buf)>>
           /\ codec = [NoCodec EXCEPT !.stage = "sent", !.packet = buf, !.buffer = buf]
    /\ csent = <<>>
    /\ ssent = <<>>
    /\ crecv = NoRecv
    /\ srecv = NoRecv
    /\ sock = [open |-> {}, closed |-> {}, bad |-> {}]
    /\ hist = [HistInit(sfiles) EXCEPT !.foreign = 1]

\* run_server takes the datagram
NextRequest ==
    ServerListenRecv

SpecRequest ==
    InitRequest /\ [][NextRequest]_vars

(***************************************************************************)
(* A long transfer near the wrap of the block number                       *)
(***************************************************************************)
\* the block in flight when the behaviour starts: the 65534th of the source
WrapStart ==
    U16 - 2

\* what is left of the source from block WrapStart on: from two full blocks
\* (WrapStart, 65535, and an empty block 0) to four full blocks and a byte
\* (WrapStart, 65535, 0, 1 and a block 2 of one byte)
WrapLens ==
    {2 * MAX_DATA_SIZE, 2 * MAX_DATA_SIZE + 1, 3 * MAX_DATA_SIZE - 1, 3 * MAX_DATA_SIZE,
     3 * MAX_DATA_SIZE + 1, 4 * MAX_DATA_SIZE - 1, 4 * MAX_DATA_SIZE, 4 * MAX_DATA_SIZE + 1}

\* send_file after Ack{WrapStart - 1}: Data{WrapStart} read and sent
WrapPut ==
    PutSend([ClientInit EXCEPT !.cmd = "put", !.server_addr = TransferAddr(1),
                               !.current_block_num = WrapStart])

\* handle_write_request after it acknowledged block WrapStart - 1
WrapWrq ==
    [ServerInit EXCEPT !.pc = "wrq_wait", !.filename = RemoteName,
                       !.client_addr = ClientAddr(1), !.expected_block_num = WrapStart,
                       !.socks = 1]

\* receive_file after it acknowledged block WrapStart - 1
WrapGet ==
    [ClientInit EXCEPT !.pc = "get_wait", !.cmd = "get", !.server_addr = TransferAddr(1),
                       !.first_data_packet = FALSE, !.expected_block_num = WrapStart]

\* handle_read_request after Ack{WrapStart - 1}: Data{WrapStart} read and sent
WrapRrq ==
    RrqSend([ServerInit EXCEPT !.filename = RemoteName, !.client_addr = ClientAddr(1),
                               !.block_num = WrapStart, !.last_ack_received = TRUE,
                               !.socks = 1])

\* a put or a get of more than 65535 blocks on a network without faults, at the
\* moment Data{WrapStart} is in flight. The files hold what the transfer has
\* not dealt with yet: the source from block WrapStart on, the sink from there
\* on (empty); the stream positions count from there, and the histories hold
\* the datagram in flight
InitWrap ==
    /\ runs = 1
    /\ sock = [open |-> {ClientAddr(1), TransferAddr(1)}, closed |-> {}, bad |-> {}]
    /\ codec = NoCodec
    /\ crecv = NoRecv
    /\ srecv = NoRecv
    /\ \E n \in WrapLens :
           \/ /\ localSrc = File(Content(1, n))
              /\ localOut = NoFile
              /\ sfiles = [f \in ServerNames |-> File(<<>>)]
              /\ client = WrapPut
              /\ server = WrapWrq
              /\ net = <<PutData(client)>>
              /\ csent = <<WireRec(PutData(client))>>
              /\ ssent = <<>>
           \/ /\ localSrc = File(<<>>)
              /\ localOut = File(<<>>)
              /\ sfiles = [f \in ServerNames |-> File(Content(2, n))]
              /\ client = WrapGet
              /\ server = WrapRrq
              /\ net = <<RrqData(server)>>
              /\ csent = <<>>
              /\ ssent = <<WireRec(RrqData(server))>>
    /\ hist = HistInit(sfiles)

\* the handlers' steps on a network that delivers every datagram once, in time
NextWrap ==
    \/ ClientGetRecv
    \/ ClientPutRecv
    \/ ServerRRQRecv
    \/ ServerWRQRecv

SpecWrap ==
    InitWrap /\ [][NextWrap]_vars

(***************************************************************************)
(* Properties                                                              *)
(***************************************************************************)
\* the server does not hold the remote name when the behaviour starts
FreshName ==
    ~hist.dir[RemoteName].exists /\ can_create(hist.dir[RemoteName])

\* the client has run a put and then a get, and the get has ended
PutThenGetDone ==
    /\ client.pc = "done"
    /\ client.cmd = "get"
    /\ Len(client.past) = 1
    /\ client.past[1].cmd = "put"

\* C1 as stated: on a network without faults, for every source S and every name,
\* a put of S followed by a get of the name both succeed and the file the get
\* writes equals S
C1_RoundTripAnyName ==
    PutThenGetDone =>
        /\ client.past[1].exit = 0
        /\ client.exit = 0
        /\ localOut = localSrc

\* C1 amended: the same for a name the server does not hold yet: the put makes
\* the server's file equal S and both sides end it with success, and the get
\* that follows succeeds on both sides and writes a local file equal to S
C1_RoundTrip ==
    /\ (FreshName /\ client.pc = "done" /\ client.cmd = "put" /\ client.past = <<>>) =>
           /\ client.exit = 0
           /\ server.pc = "listen" /\ server.result = "success"
           /\ sfiles[RemoteName] = localSrc
    /\ (FreshName /\ PutThenGetDone) =>
           /\ client.past[1].exit = 0
           /\ client.exit = 0
           /\ localOut = localSrc
    /\ (FreshName /\ PutThenGetDone /\ server.pc = "listen" /\ server.socks = 2) =>
           server.result = "success"

\* C1's case: a put and a get of MaxBlocks full blocks (an exact multiple of the
\* block size) have both ended, on both sides
C1_Witness ==
    /\ FreshName /\ PutThenGetDone
    /\ server.pc = "listen" /\ server.socks = 2
    /\ Len(localSrc.data) = MaxBlocks * MAX_DATA_SIZE
    /\ localOut = localSrc

\* the client is in, or has ended, its first invocation, and that transfer would
\* succeed on a network without faults
FirstTransfer ==
    /\ runs = 1
    /\ \/ client.cmd = "get" /\ can_read(hist.dir[RemoteName])
       \/ client.cmd = "put" /\ FreshName

\* the server has ended the first request
FirstRequestEnded ==
    server.pc = "listen" /\ server.socks = 1

\* the only faults so far: at most MAX_RETRIES - 1 lost Data or Ack datagrams
OnlyLosses ==
    /\ hist.dup = 0 /\ hist.foreign = 0 /\ hist.late = 0
    /\ hist.drop <= MAX_RETRIES - 1
    /\ hist.lost \subseteq {TFTP_OPCODE_DATA, TFTP_OPCODE_ACK}

\* C2: when the network only loses up to MAX_RETRIES - 1 Data or Ack datagrams in
\* a row, every get and every put ends with success on both sides
C2_LossTolerated ==
    (FirstTransfer /\ OnlyLosses) =>
        /\ client.pc = "done" => client.exit = 0
        /\ FirstRequestEnded => server.result = "success"

\* the only fault so far: one Data or Ack datagram delivered twice
OnlyOneDuplicate ==
    /\ hist.drop = 0 /\ hist.foreign = 0 /\ hist.late = 0
    /\ hist.dup = 1
    /\ hist.duped \subseteq {TFTP_OPCODE_DATA, TFTP_OPCODE_ACK}

\* C3: when the wire duplicates one Data or Ack datagram, the transfer ends with
\* success on both sides and the receiver's file equals the source
C3_DuplicateTolerated ==
    (FirstTransfer /\ OnlyOneDuplicate) =>
        /\ client.pc = "done" =>
               /\ client.exit = 0
               /\ client.cmd = "get" => localOut = hist.dir[RemoteName]
        /\ FirstRequestEnded =>
               /\ server.result = "success"
               /\ client.cmd = "put" => sfiles[RemoteName] = localSrc

\* the client has bound its peer: receive_file after its first datagram,
\* send_file after the reply to the WRQ
ClientBound ==
    \/ client.pc = "get_wait" /\ ~client.first_data_packet
    \/ client.pc \in {"put_wait", "put_rewait"}

\* the peer of the server's current transfer: the source of the request, to which
\* its first datagram went
RequestPeer ==
    ssent[1].dst

\* Error(UnknownTransferID) from one address to another, as the histories record it
UnknownTidTo(from, to, rec) ==
    /\ rec.src = from /\ rec.dst = to
    /\ rec.op = TFTP_OPCODE_ERROR
    /\ rec.num = TFTP_ERROR_UNKNOWN_TRANSFER_ID

C4_ForeignSourceStep ==
    /\ (ClientBound /\ runs' = runs /\ crecv'.n = crecv.n + 1
            /\ crecv'.src # client.server_addr) =>
           /\ client' = client
           /\ localOut' = localOut
           /\ Len(csent') = Len(csent) + 1
           /\ UnknownTidTo(ClientAddr(runs), crecv'.src, csent'[Len(csent')])
    /\ (ServerActive /\ srecv'.n = srecv.n + 1 /\ srecv'.src # RequestPeer) =>
           /\ server' = server
           /\ sfiles' = sfiles
           /\ Len(ssent') = Len(ssent) + 1
           /\ UnknownTidTo(TransferAddr(server.socks), srecv'.src, ssent'[Len(ssent')])

\* C4: a step that consumes a datagram from a source other than the bound peer
\* sends Error(5) to that source and changes nothing else of the transfer
C4_ForeignSource ==
    [][C4_ForeignSourceStep]_vars

\* C5: every datagram a side sends once its peer is bound goes to that one peer:
\* the server's peer is the source of the request; the client's peer is the
\* source of the first reply, to which its second datagram went
C5_PeerFixed ==
    /\ \A k \in 1..Len(ssent) : ssent[k].dst = RequestPeer
    /\ \A k \in 2..Len(csent) : csent[k].dst = csent[2].dst

\* the number of the final block of a source of len bytes
FinalBlock(len) ==
    len \div MAX_DATA_SIZE + 1

\* a history holds a datagram with this opcode and block number
HasSent(log, op, num) ==
    \E k \in 1..Len(log) : log[k].op = op /\ log[k].num = num

\* the server's current (or last) transfer serves a RRQ: it opened with Data
ServesRRQ ==
    ssent # <<>> /\ ssent[1].op = TFTP_OPCODE_DATA

\* the server's current (or last) transfer serves a WRQ: it opened with Ack{0}
ServesWRQ ==
    ssent # <<>> /\ ssent[1].op = TFTP_OPCODE_ACK

\* the reader of a get has sent the Ack of the final block
ClientAckedFinal ==
    /\ client.cmd = "get" /\ sfiles[RemoteName].exists
    /\ HasSent(csent, TFTP_OPCODE_ACK, FinalBlock(Len(sfiles[RemoteName].data)))

\* the reader of a put has sent the Ack of the final block
ServerAckedFinal ==
    /\ ServesWRQ
    /\ HasSent(ssent, TFTP_OPCODE_ACK, FinalBlock(Len(localSrc.data)))

\* the writer of a put has taken the Ack of its final block and reported success
ClientWriterDone ==
    client.cmd = "put" /\ client.pc = "done" /\ client.exit = 0

\* the writer of a get has taken the Ack of its final block and reported success
ServerWriterDone ==
    ServesRRQ /\ server.pc = "listen" /\ server.result = "success"

\* a step within the transfers both sides are in: no new invocation, no new request
SameTransfer ==
    runs' = runs /\ server.socks' = server.socks

C6_SilentAfterReaderAckStep ==
    ((ClientAckedFinal \/ ServerAckedFinal) /\ SameTransfer) =>
        csent' = csent /\ ssent' = ssent

\* C6 as stated: once the reader has acknowledged the final block, no step of
\* that transfer puts a datagram on the wire, on either side
C6_SilentAfterReaderAck ==
    [][C6_SilentAfterReaderAckStep]_vars

C6_SilentStep ==
    /\ (ClientAckedFinal /\ runs' = runs) => csent' = csent
    /\ (ServerAckedFinal /\ server.socks' = server.socks) => ssent' = ssent
    /\ (ClientWriterDone /\ runs' = runs) => csent' = csent
    /\ (ServerWriterDone /\ server.socks' = server.socks) => ssent' = ssent

\* C6, amended: once the reader has sent the Ack of the final block the reader
\* sends nothing more of that transfer, and once the writer has taken that Ack
\* and reported success the writer sends nothing more of it, whatever is lost,
\* late or duplicated
C6_Silent ==
    [][C6_SilentStep]_vars

\* a put whose final Ack reached the writer, on a network that duplicated or
\* delayed a datagram
C6_Witness ==
    /\ ClientWriterDone /\ ServerAckedFinal
    /\ hist.dup + hist.late > 0

\* the Data datagrams of a history, as <<block number, datagram length>>
DataSent(log) ==
    LET IsData(r) == r.op = TFTP_OPCODE_DATA
        sel == SelectSeq(log, IsData)
    IN  [k \in 1..Len(sel) |-> <<sel[k].num, sel[k].len>>]

\* the Data datagrams of a source of len bytes: blocks 1, 2, ... of MAX_DATA_SIZE
\* bytes and a short last one
ExpectedData(len) ==
    [k \in 1..FinalBlock(len) |->
        <<k, DATA_HEADER_SIZE + (IF k < FinalBlock(len) THEN MAX_DATA_SIZE
                                                         ELSE len % MAX_DATA_SIZE)>>]

IsPrefix(s, t) ==
    Len(s) <= Len(t) /\ \A k \in 1..Len(s) : s[k] = t[k]

\* C7: on a network without faults a writer sends the Data blocks of its source
\* in order, 1, 2, ..., each of MAX_DATA_SIZE bytes but the last, and has sent
\* exactly len \div MAX_DATA_SIZE + 1 of them when it reports success; for the
\* client's put and for the server's RRQ
C7_DataBlocks ==
    /\ client.cmd = "put" =>
           /\ IsPrefix(DataSent(csent), ExpectedData(Len(localSrc.data)))
           /\ client.exit = 0 => DataSent(csent) = ExpectedData(Len(localSrc.data))
    /\ ServesRRQ =>
           /\ IsPrefix(DataSent(ssent), ExpectedData(Len(sfiles[RemoteName].data)))
           /\ server.result = "success" =>
                  DataSent(ssent) = ExpectedData(Len(sfiles[RemoteName].data))

\* a source of exactly MAX_DATA_SIZE bytes was put and then served again: the
\* server has sent a full block and an empty one
C7_Witness ==
    /\ Len(localSrc.data) = MAX_DATA_SIZE
    /\ client.past # <<>> /\ client.past[1].cmd = "put" /\ client.past[1].exit = 0
    /\ ServesRRQ /\ server.result = "success"
    /\ DataSent(ssent) = <<<<1, DATA_HEADER_SIZE + MAX_DATA_SIZE>>, <<2, DATA_HEADER_SIZE>>>>

\* the step appends to the history a Data block with a number not sent before
SendsNewData(log, after, num) ==
    /\ ~HasSent(log, TFTP_OPCODE_DATA, num)
    /\ Len(after) > Len(log)
    /\ after[Len(after)].op = TFTP_OPCODE_DATA
    /\ after[Len(after)].num = num

\* the datagram consumed by the step is Ack{num} from the peer
ConsumesAck(before, after, num, peer) ==
    /\ after.n = before.n + 1
    /\ after.op = TFTP_OPCODE_ACK /\ after.num = num
    /\ after.src = peer

C8_StopAndWaitStep ==
    \A num \in 0..(MaxBlocks + 2) :
        /\ (client.cmd = "put" /\ runs' = runs /\ SendsNewData(csent, csent', num)) =>
               /\ num >= 1
               /\ ConsumesAck(crecv, crecv', num - 1, client'.server_addr)
               /\ num > 1 => HasSent(csent, TFTP_OPCODE_DATA, num - 1)
        /\ (ServerActive /\ SendsNewData(ssent, ssent', num)) =>
               /\ num >= 2
               /\ ConsumesAck(srecv, srecv', num - 1, RequestPeer)
               /\ HasSent(ssent, TFTP_OPCODE_DATA, num - 1)

\* C8: a writer puts a Data block with a new number M+1 on the wire only in the
\* step that consumes Ack{M} from its peer, after it sent Data{M}
C8_StopAndWait ==
    [][C8_StopAndWaitStep]_vars

\* the last datagram of a history
LastSent(log) ==
    log[Len(log)]

\* rec is the record of a Data datagram with a payload below MAX_DATA_SIZE
ShortData(rec) ==
    /\ rec.op = TFTP_OPCODE_DATA
    /\ rec.len >= DATA_HEADER_SIZE
    /\ rec.len < DATA_HEADER_SIZE + MAX_DATA_SIZE

\* a writer's success: its last datagram is the short Data block and the last
\* datagram it received is the Ack with that block's number
WriterSuccess(log, rcv) ==
    /\ log # <<>>
    /\ ShortData(LastSent(log))
    /\ rcv.op = TFTP_OPCODE_ACK /\ rcv.len >= ACK_PACKET_SIZE
    /\ rcv.num = LastSent(log).num

\* a reader's success: the last datagram it received is a short Data block with
\* the number it expected and its last datagram is the Ack of that number
ReaderSuccess(log, rcv, expected) ==
    /\ ShortData(rcv)
    /\ rcv.num = expected
    /\ log # <<>>
    /\ LastSent(log).op = TFTP_OPCODE_ACK
    /\ LastSent(log).num = rcv.num

\* C9: a transfer reports success only after the final exchange: the writer
\* (client put, server RRQ) has sent the short Data block and received the Ack
\* with its number; the reader (client get, server WRQ) has received a short Data
\* block with the expected number and has sent its Ack
C9_SuccessOnlyAfterFinal ==
    /\ (client.pc = "done" /\ client.exit = 0 /\ client.cmd = "put") =>
           WriterSuccess(csent, crecv)
    /\ (client.pc = "done" /\ client.exit = 0 /\ client.cmd = "get") =>
           ReaderSuccess(csent, crecv, client.expected_block_num)
    /\ (server.pc = "listen" /\ server.result = "success" /\ ServesRRQ) =>
           WriterSuccess(ssent, srecv)
    /\ (server.pc = "listen" /\ server.result = "success" /\ ServesWRQ) =>
           ReaderSuccess(ssent, srecv, server.expected_block_num)

\* a get of two blocks that succeeded on both sides although the network
\* duplicated, lost or delayed a datagram
C9_Witness ==
    /\ client.pc = "done" /\ client.exit = 0 /\ client.cmd = "get"
    /\ server.pc = "listen" /\ server.result = "success" /\ ServesRRQ
    /\ LastSent(ssent).num = 2
    /\ hist.dup + hist.drop + hist.late + hist.foreign > 0

\* how often the last datagram of a history has been sent again in a row
Retries(log) ==
    LET Same(k) == \A j \in (Len(log) - k)..Len(log) : log[j] = LastSent(log)
    IN  IF log = <<>> THEN 0
        ELSE CHOOSE k \in 0..(Len(log) - 1) :
                 /\ Same(k)
                 /\ k < Len(log) - 1 => ~Same(k + 1)

\* a timeout of the client's recvfrom(): a step of the invocation that consumes
\* no datagram
ClientTimeoutStep ==
    client' # client /\ runs' = runs /\ crecv' = crecv

\* a timeout of the recvfrom() of the server's transfer
ServerTimeoutStep ==
    server' # server /\ server.socks' = server.socks /\ srecv' = srecv

C10_RetryCapStep ==
    /\ ClientTimeoutStep =>
           IF Retries(csent) < MAX_RETRIES
           THEN client'.pc # "done" /\ csent' = Append(csent, LastSent(csent))
           ELSE client'.pc = "done" /\ client'.exit # 0
    /\ ServerTimeoutStep =>
           IF Retries(ssent) < MAX_RETRIES
           THEN server'.pc # "listen" /\ ssent' = Append(ssent, LastSent(ssent))
           ELSE server'.pc = "listen" /\ server'.result = "aborted"

\* C10: on every receive timeout, in every path, the last datagram sent is sent
\* again while fewer than MAX_RETRIES retries were made for it, and the transfer
\* is aborted only once MAX_RETRIES retries are exhausted
C10_RetryCap ==
    [][C10_RetryCapStep]_vars

\* an Error datagram in a history is its last entry
ErrorIsLast(log) ==
    \A k \in 1..Len(log) : log[k].op = TFTP_OPCODE_ERROR => k = Len(log)

\* the last datagram the client consumed is an Error from its peer
ClientGotError ==
    /\ crecv.n > 0 /\ crecv.op = TFTP_OPCODE_ERROR
    /\ crecv.src = client.server_addr

\* the last datagram the server's handler consumed is an Error; recvfrom() has
\* made its sender the peer
ServerGotError ==
    /\ srecv.n > 0 /\ srecv.op = TFTP_OPCODE_ERROR
    /\ srecv.src = server.client_addr

C11_ErrorEndsStep ==
    /\ (ClientGotError' /\ runs' = runs) => (csent' = csent /\ client'.pc = "done")
    /\ (ServerGotError' /\ server.socks' = server.socks) =>
           (ssent' = ssent /\ server'.pc = "listen")
    /\ ErrorIsLast(csent') /\ ErrorIsLast(ssent')

\* C11: a side that consumes an Error from its peer ends the transfer in that
\* step and sends nothing in it or after it; an Error a side sends is the last
\* datagram it sends in the transfer, so it is sent once and never repeated
C11_ErrorEnds ==
    [][C11_ErrorEndsStep]_vars

\* the server refused the client's request with one Error, and the client has
\* consumed it
C11_Witness ==
    /\ ClientGotError /\ client.pc = "done"
    /\ Len(ssent) = 1 /\ ssent[1].op = TFTP_OPCODE_ERROR
    /\ ssent[1].dst = ClientAddr(runs)

\* the sockets created so far: one per client invocation that got as far as
\* socket(), one per datagram the server took from its listening socket
ClientSockets ==
    {ClientAddr(r) : r \in 1..runs} \cap (sock.open \cup sock.closed)

TransferSockets ==
    {TransferAddr(k) : k \in 1..server.socks}

\* C12: no socket is closed twice or closed without being open; the socket of a
\* transfer is open while the transfer runs and closed once it has ended, on the
\* client and for every request of the server, however the transfer ends
C12_SocketsClosedOnce ==
    /\ sock.bad = {}
    /\ sock.open \cap sock.closed = {}
    /\ TransferSockets \subseteq sock.open \cup sock.closed
    /\ \A a \in ClientSockets :
           a \in sock.open <=> (a = ClientAddr(runs) /\ ClientActive)
    /\ \A a \in TransferSockets :
           a \in sock.open <=> (a = TransferAddr(server.socks) /\ ServerActive)

Request ==
    parse_request_packet(net[HeadFor(ListenAddr)].buf)

\* the step is a pass of run_server's loop on a datagram
TakesRequest ==
    /\ server.pc = "listen"
    /\ HeadFor(ListenAddr) # 0
    /\ server'.socks = server.socks + 1

\* the server's reply to the request is one Error with this code and the server
\* is back listening, its files untouched, no handler entered
RefusedWith(code) ==
    /\ Len(ssent') = 1
    /\ ssent'[1].op = TFTP_OPCODE_ERROR
    /\ ssent'[1].num = code
    /\ server'.pc = "listen"
    /\ sfiles' = sfiles

C14_ModeRefusedStep ==
    (TakesRequest /\ Request.ok /\ lower(Request.mode) # OCTET) =>
        RefusedWith(TFTP_ERROR_ILLEGAL_OPERATION)

\* C14: every well-formed request whose mode is not "octet" in any case is refused
\* with Error(IllegalOperation) whatever its file name; no file is opened or
\* created and no Data or Ack is sent
C14_ModeRefused ==
    [][C14_ModeRefusedStep]_vars

\* sub occurs in name
Contains(name, sub) ==
    \E i \in 1..(Len(name) - Len(sub) + 1) : SubSeq(name, i, i + Len(sub) - 1) = sub

\* the name contains "..", "/" or "\"
NamesPath(name) ==
    Contains(name, <<46, 46>>) \/ Contains(name, <<47>>) \/ Contains(name, <<92>>)

C15_TraversalRefusedStep ==
    (TakesRequest /\ Request.ok /\ NamesPath(Request.filename)) =>
        /\ RefusedWith(TFTP_ERROR_ACCESS_VIOLATION)
        /\ ssent'[1].src = TransferAddr(server'.socks)
        /\ ssent'[1].src \notin {ListenAddr} \cup sock.open \cup sock.closed
        /\ server'.result = "refused"

\* C15: a request whose file name contains "..", "/" or "\" is answered with one
\* Error(AccessViolation) from a transfer socket created for it, and the server
\* is back listening with every file as it was and no handler entered
C15_TraversalRefused ==
    [][C15_TraversalRefusedStep]_vars

\* a RRQ of "n\n" has been refused with Error(AccessViolation) from the transfer
\* socket of that request
C15_Witness ==
    /\ server.pc = "listen" /\ server.result = "refused"
    /\ server.filename = <<110, 92, 110>>
    /\ Len(ssent) = 1
    /\ ssent[1].op = TFTP_OPCODE_ERROR /\ ssent[1].num = TFTP_ERROR_ACCESS_VIOLATION
    /\ ssent[1].src = TransferAddr(server.socks)

\* the request taken in the step is an octet request with this opcode that
\* passes the dispatcher's checks
Dispatched(opcode) ==
    /\ TakesRequest /\ Request.ok
    /\ get_opcode(net[HeadFor(ListenAddr)].buf) = opcode
    /\ ~NamesPath(Request.filename)
    /\ lower(Request.mode) = OCTET

C16_OpenFailureCodeStep ==
    (Dispatched(TFTP_OPCODE_RRQ) /\ ~can_read(Lookup(Request.filename))) =>
        IF Lookup(Request.filename).exists
        THEN RefusedWith(TFTP_ERROR_ACCESS_VIOLATION)
        ELSE RefusedWith(TFTP_ERROR_FILE_NOT_FOUND)

\* C16: when the server cannot open the file of a RRQ its Error tells why:
\* FileNotFound (1) when no such file exists, AccessViolation (2) when the file
\* exists and may not be read
C16_OpenFailureCode ==
    [][C16_OpenFailureCodeStep]_vars

\* a file of this name can be created: the name is one the file system takes
\* and the process may create it
Creatable(filename) ==
    ~stat_fails(filename) /\ can_create(Lookup(filename))

C17_WriteRequestStep ==
    Dispatched(TFTP_OPCODE_WRQ) =>
        IF Lookup(Request.filename).exists
        THEN RefusedWith(TFTP_ERROR_FILE_ALREADY_EXISTS)
        ELSE IF ~Creatable(Request.filename)
        THEN RefusedWith(TFTP_ERROR_ACCESS_VIOLATION)
        ELSE /\ Len(ssent') = 1
             /\ ssent'[1].op = TFTP_OPCODE_ACK /\ ssent'[1].num = 0
             /\ server'.pc = "wrq_wait"
             /\ server'.expected_block_num = 1

\* C17: a WRQ of a file that exists is answered with Error(FileAlreadyExists)
\* and the file is left as it was; a WRQ of a file that cannot be created is
\* answered with Error(AccessViolation); any other WRQ is answered with Ack{0}
\* as the first datagram, and the server then waits for Data block 1
C17_WriteRequest ==
    [][C17_WriteRequestStep]_vars

C18_ListenNeverSendsStep ==
    /\ \A k \in 1..Len(ssent') :
           /\ ssent'[k].src # ListenAddr
           /\ ssent'[k].src = [ip |-> "S", port |-> 49152 + server'.socks]
    /\ \A i \in 1..Len(net') : net'[i].src # ListenAddr
    /\ TakesRequest =>
           [ip |-> "S", port |-> 49152 + server'.socks] \notin sock.open \cup sock.closed

\* C18: no datagram on the wire comes from the server's listening socket; every
\* datagram the server sends for a request, Data, Ack or Error, comes from the
\* transfer socket of that request, which no earlier request has used
C18_ListenNeverSends ==
    [][C18_ListenNeverSendsStep]_vars

\* the second datagram on the listening socket was no request and has been
\* answered with an Error from the second transfer socket
C18_Witness ==
    /\ server.socks = 2 /\ server.pc = "listen" /\ server.result = "refused"
    /\ Len(ssent) = 1
    /\ ssent[1].op = TFTP_OPCODE_ERROR
    /\ ssent[1].num = TFTP_ERROR_ILLEGAL_OPERATION
    /\ ssent[1].src = [ip |-> "S", port |-> 49152 + 2]
    /\ ssent[1].dst = ForeignAddr

\* the server holds no file of this name that it may read
Unopenable(filename) ==
    ~Lookup(filename).exists \/ ~Lookup(filename).perm

\* the server's only reply to the client's current invocation is Error code 1
NotFoundSent(log, r) ==
    /\ Len(log) = 1
    /\ log[1].op = TFTP_OPCODE_ERROR /\ log[1].num = 1
    /\ log[1].dst = ClientAddr(r)

C19_GetMissingStep ==
    /\ (Dispatched(TFTP_OPCODE_RRQ) /\ Unopenable(Request.filename)
            /\ net[HeadFor(ListenAddr)].src = ClientAddr(runs)) =>
           /\ RefusedWith(1)
           /\ NotFoundSent(ssent', runs)
    /\ (NotFoundSent(ssent', runs') /\ client'.cmd = "get") =>
           /\ ~HasSent(csent', TFTP_OPCODE_ACK, 1)
           /\ client'.pc = "done" => (client'.exit # 0 /\ ~localOut'.exists)

\* C19: a RRQ of the client for a name the server cannot open is answered with
\* one Error of code 1 and no Data; the client acknowledges nothing, and when it
\* ends it ends with a nonzero exit code and no local file
C19_GetMissing ==
    [][C19_GetMissingStep]_vars

\* the server holds no file "n"; the client's get has taken the Error of code 1
\* and ended with a failure, its local file removed
C19_Witness ==
    /\ ~sfiles[RemoteName].exists
    /\ NotFoundSent(ssent, runs)
    /\ client.cmd = "get" /\ client.pc = "done" /\ client.exit # 0
    /\ ClientGotError /\ crecv.num = 1
    /\ ~localOut.exists

\* how many Ack{num} a history holds
AcksSent(log, num) ==
    LET IsAck(rec) == rec.op = TFTP_OPCODE_ACK /\ rec.num = num
    IN  Len(SelectSeq(log, IsAck))

\* the client's first invocation is a get of a file of less than one block, so
\* that Data{1} is the final block, and the only fault so far is one Data
\* datagram delivered twice
FinalDataDuplicated ==
    /\ runs = 1 /\ client.cmd = "get"
    /\ can_read(hist.dir[RemoteName])
    /\ Len(hist.dir[RemoteName].data) < MAX_DATA_SIZE
    /\ hist.dup = 1 /\ hist.duped = {TFTP_OPCODE_DATA}
    /\ hist.drop = 0 /\ hist.foreign = 0 /\ hist.late = 0

\* C20 as stated: when the final Data block of a get is duplicated the client
\* writes the payload once, sends the Ack of that block twice and ends with
\* success
C20_FinalDuplicateAckedTwice ==
    (FinalDataDuplicated /\ client.pc = "done") =>
        /\ client.exit = 0
        /\ localOut = hist.dir[RemoteName]
        /\ AcksSent(csent, 1) = 2

\* C20 amended: when the final Data block of a get is duplicated the client
\* writes the payload once, sends the Ack of that block once (the second copy
\* finds the client's socket closed) and ends with success
C20_FinalDuplicate ==
    FinalDataDuplicated =>
        /\ AcksSent(csent, 1) <= 1
        /\ client.pc = "done" =>
               /\ client.exit = 0
               /\ localOut = hist.dir[RemoteName]
               /\ AcksSent(csent, 1) = 1

\* a get of MAX_DATA_SIZE - 1 bytes whose only Data block was duplicated has
\* ended with success on both sides
C20_Witness ==
    /\ FinalDataDuplicated /\ client.pc = "done" /\ client.exit = 0
    /\ Len(localOut.data) = MAX_DATA_SIZE - 1
    /\ AcksSent(csent, 1) = 1
    /\ server.pc = "listen" /\ server.result = "success"

\* the client's first invocation is a put of a name the server can take, the
\* only fault so far is one lost Ack, and Ack{0} was not the one: the client has
\* sent Data{1}
OneAckDropped ==
    /\ runs = 1 /\ client.cmd = "put" /\ FreshName
    /\ HasSent(csent, TFTP_OPCODE_DATA, 1)
    /\ hist.drop = 1 /\ hist.lost = {TFTP_OPCODE_ACK}
    /\ hist.dup = 0 /\ hist.foreign = 0 /\ hist.late = 0

\* C21: when exactly one Ack of a put is lost, the Ack of the final short block
\* included, the client sends the Data block again, the server acknowledges it
\* again without writing, and the put ends with success on both sides with the
\* server's file equal to the source
C21_AckLossRecovered ==
    OneAckDropped =>
        /\ client.pc = "done" => client.exit = 0
        /\ FirstRequestEnded =>
               /\ server.result = "success"
               /\ sfiles[RemoteName] = localSrc

\* C22: for every valid packet of the five kinds, parsing the buffer made of it
\* succeeds and returns its opcode and its fields: file name and mode, block
\* number and payload, error code and message
C22_CodecRoundTrip ==
    codec.stage = "parsed" =>
        /\ codec.parsed.ok
        /\ codec.parsed.packet = codec.packet

\* a Data packet with block number 65535 and a payload of MAX_DATA_SIZE bytes
\* has been encoded and parsed
C22_Witness ==
    /\ codec.stage = "parsed"
    /\ codec.packet.opcode = TFTP_OPCODE_DATA
    /\ codec.packet.block_num = U16 - 1
    /\ Len(codec.packet.data) = MAX_DATA_SIZE
    /\ Len(codec.buffer) = MAX_PACKET_SIZE
    /\ codec.parsed.packet.data = codec.packet.data

\* the step takes the final exchange of a get: the client consumes a short
\* Data block with the number it expects from its peer and sends the Ack of it
GetEndsWell ==
    /\ client.cmd = "get" /\ client.pc = "get_wait"
    /\ crecv'.n = crecv.n + 1
    /\ ShortData(crecv') /\ crecv'.num = client.expected_block_num
    /\ crecv'.src = client'.server_addr
    /\ Len(csent') = Len(csent) + 1
    /\ LastSent(csent').op = TFTP_OPCODE_ACK /\ LastSent(csent').num = crecv'.num

\* the step takes the final exchange of a put: the last datagram the client sent
\* is a short Data block and it consumes the Ack of that block from its peer
PutEndsWell ==
    /\ client.cmd = "put" /\ client.pc \in {"put_wait", "put_rewait"}
    /\ crecv'.n = crecv.n + 1
    /\ ShortData(LastSent(csent))
    /\ crecv'.op = TFTP_OPCODE_ACK /\ crecv'.len = ACK_PACKET_SIZE
    /\ crecv'.num = LastSent(csent).num
    /\ crecv'.src = client.server_addr

C23_ExitCodeStep ==
    /\ (ClientActive /\ client'.pc = "done") =>
           /\ client'.exit \in {0, 1}
           /\ client'.exit = 0 <=> (GetEndsWell \/ PutEndsWell)
    /\ (ClientActive /\ runs' = runs /\ (GetEndsWell \/ PutEndsWell)) =>
           (client'.pc = "done" /\ client'.exit = 0)
    /\ (~ClientActive /\ client'.pc = "done" /\ runs' = runs + 1) =>
           client'.exit = 1

\* C23: the client ends with exit code 0 exactly when its get or put took the
\* final exchange of the transfer; every other end of an invocation (timeout,
\* Error received, protocol error, a command that is neither get nor put) gives
\* exit code 1
C23_ExitCode ==
    [][C23_ExitCodeStep]_vars

\* a put that succeeded with exit code 0, followed by an invocation with an
\* invalid command that gave exit code 1
C23_Witness ==
    /\ client.pc = "done" /\ client.cmd = "del" /\ client.exit = 1
    /\ Len(client.past) = 1
    /\ client.past[1].cmd = "put" /\ client.past[1].exit = 0

\* the step appends to the history one Ack{num} addressed to dst
AcksAgain(log, after, num, dst) ==
    /\ Len(after) = Len(log) + 1
    /\ LastSent(after).op = TFTP_OPCODE_ACK /\ LastSent(after).num = num
    /\ LastSent(after).dst = dst

\* the client's get consumes a Data datagram from its peer
ClientTakesData ==
    /\ client.pc = "get_wait" /\ runs' = runs
    /\ crecv'.n = crecv.n + 1
    /\ crecv'.op = TFTP_OPCODE_DATA /\ crecv'.len >= DATA_HEADER_SIZE
    /\ crecv'.src = client'.server_addr

\* the server's WRQ handler consumes a Data datagram from its peer
ServerTakesData ==
    /\ server.pc = "wrq_wait"
    /\ srecv'.n = srecv.n + 1
    /\ srecv'.op = TFTP_OPCODE_DATA /\ srecv'.len >= DATA_HEADER_SIZE
    /\ srecv'.src = RequestPeer

C24_DuplicateDataStep ==
    /\ (ClientTakesData /\ crecv'.num < client.expected_block_num) =>
           /\ localOut' = localOut
           /\ client'.expected_block_num = client.expected_block_num
           /\ client'.pc = "get_wait"
           /\ AcksAgain(csent, csent', crecv'.num, crecv'.src)
    /\ (ServerTakesData /\ srecv'.num < server.expected_block_num) =>
           /\ sfiles' = sfiles
           /\ server'.expected_block_num = server.expected_block_num
           /\ server'.pc = "wrq_wait"
           /\ AcksAgain(ssent, ssent', srecv'.num, srecv'.src)
    /\ (client.pc = "get_wait" /\ runs' = runs /\ localOut'.data # localOut.data
            /\ localOut'.exists) =>
           /\ crecv'.n = crecv.n + 1
           /\ crecv'.num = client.expected_block_num
           /\ Len(localOut'.data) = Len(localOut.data) + crecv'.len - DATA_HEADER_SIZE
           /\ client'.pc = "done" \/ client'.expected_block_num = crecv'.num + 1
    /\ (server.pc = "wrq_wait" /\ sfiles'[RemoteName].data # sfiles[RemoteName].data
            /\ sfiles'[RemoteName].exists) =>
           /\ srecv'.n = srecv.n + 1
           /\ srecv'.num = server.expected_block_num
           /\ Len(sfiles'[RemoteName].data) =
                  Len(sfiles[RemoteName].data) + srecv'.len - DATA_HEADER_SIZE
           /\ server'.pc = "listen" \/ server'.expected_block_num = srecv'.num + 1

\* C24: a reader waiting for block N that takes Data{block < N} from its peer
\* writes nothing, keeps N, sends Ack{block} and waits on; the sink only grows
\* by the payload of the block waited for, after which the reader waits for the
\* next one, so every block is written at most once and in order
C24_DuplicateData ==
    [][C24_DuplicateDataStep]_vars

\* the server of a put waits for block 2 and has acknowledged block 1 twice
C24_Witness ==
    /\ server.pc = "wrq_wait" /\ server.expected_block_num = 2
    /\ srecv.op = TFTP_OPCODE_DATA /\ srecv.num = 1 /\ srecv.n = 2
    /\ AcksSent(ssent, 1) = 2
    /\ Len(sfiles[RemoteName].data) = MAX_DATA_SIZE

\* the step appends to the history one Error with this code addressed to dst
SendsError(log, after, code, dst) ==
    /\ Len(after) = Len(log) + 1
    /\ LastSent(after).op = TFTP_OPCODE_ERROR /\ LastSent(after).num = code
    /\ LastSent(after).dst = dst

\* handle_write_request takes the sender of every datagram for its peer
ServerTakesAnyData ==
    /\ server.pc = "wrq_wait"
    /\ srecv'.n = srecv.n + 1
    /\ srecv'.op = TFTP_OPCODE_DATA /\ srecv'.len >= DATA_HEADER_SIZE

C25_FutureDataStep ==
    /\ (ClientTakesData /\ crecv'.num > client.expected_block_num) =>
           /\ SendsError(csent, csent', 4, crecv'.src)
           /\ localOut'.data = <<>>
           /\ client'.pc = "done" /\ client'.exit = 1
           /\ client'.expected_block_num = client.expected_block_num
    /\ (ServerTakesAnyData /\ srecv'.num > server.expected_block_num) =>
           /\ SendsError(ssent, ssent', 4, srecv'.src)
           /\ sfiles'[RemoteName].data = <<>>
           /\ server'.pc = "listen" /\ server'.result = "aborted"
           /\ server'.expected_block_num = server.expected_block_num

\* C25: a reader waiting for block N that takes Data{block > N} sends
\* Error(IllegalOperation = 4) to the sender, writes nothing of the datagram, and
\* aborts the transfer without moving to the higher block
C25_FutureData ==
    [][C25_FutureDataStep]_vars

\* the server of a put has taken Data{7} while waiting for block 2 and aborted
\* with Error(4)
C25_Witness ==
    /\ server.pc = "listen" /\ server.result = "aborted"
    /\ server.expected_block_num = 2
    /\ srecv.op = TFTP_OPCODE_DATA /\ srecv.num = 7
    /\ LastSent(ssent).op = TFTP_OPCODE_ERROR /\ LastSent(ssent).num = 4
    /\ ~sfiles[RemoteName].exists

\* the client consumes a datagram of its peer (the sender of the first reply
\* included) whose opcode is not among ops
ClientTakesOther(pcs, ops) ==
    /\ client.pc \in pcs /\ runs' = runs
    /\ crecv'.n = crecv.n + 1
    /\ crecv'.src = client'.server_addr
    /\ crecv'.op \notin ops

\* the server's handler consumes a datagram of its peer whose opcode is not
\* among ops
ServerTakesOther(pc, ops) ==
    /\ server.pc = pc
    /\ srecv'.n = srecv.n + 1
    /\ srecv'.src = RequestPeer
    /\ srecv'.op \notin ops

C26_UnexpectedOpcodeStep ==
    /\ ClientTakesOther({"get_wait"}, {TFTP_OPCODE_DATA, TFTP_OPCODE_ERROR}) =>
           /\ SendsError(csent, csent', TFTP_ERROR_ILLEGAL_OPERATION, crecv'.src)
           /\ client'.pc = "done" /\ client'.exit = 1
    /\ ClientTakesOther({"put_ack0", "put_wait", "put_rewait"},
                        {TFTP_OPCODE_ACK, TFTP_OPCODE_ERROR}) =>
           /\ SendsError(csent, csent', TFTP_ERROR_ILLEGAL_OPERATION, crecv'.src)
           /\ client'.pc = "done" /\ client'.exit = 1
    /\ ServerTakesOther("rrq_wait", {TFTP_OPCODE_ACK, TFTP_OPCODE_ERROR}) =>
           /\ SendsError(ssent, ssent', TFTP_ERROR_ILLEGAL_OPERATION, srecv'.src)
           /\ server'.pc = "listen" /\ server'.result = "aborted"
    /\ ServerTakesOther("wrq_wait", {TFTP_OPCODE_DATA, TFTP_OPCODE_ERROR}) =>
           /\ SendsError(ssent, ssent', TFTP_ERROR_ILLEGAL_OPERATION, srecv'.src)
           /\ server'.pc = "listen" /\ server'.result = "aborted"

\* C26: on every path, a datagram from the peer whose opcode is neither the
\* expected kind (Data for a reader, Ack for a writer) nor Error makes the side
\* send Error(IllegalOperation) and abort the transfer
C26_UnexpectedOpcode ==
    [][C26_UnexpectedOpcodeStep]_vars

C27_ReaderRetransmitsStep ==
    /\ (client.pc = "get_wait" /\ ClientTimeoutStep
            /\ LastSent(csent).op = TFTP_OPCODE_ACK) =>
           IF Retries(csent) < MAX_RETRIES
           THEN client'.pc = "get_wait" /\ csent' = Append(csent, LastSent(csent))
           ELSE client'.pc = "done" /\ client'.exit = 1
    /\ (server.pc = "wrq_wait" /\ ServerTimeoutStep) =>
           IF Retries(ssent) < MAX_RETRIES
           THEN server'.pc = "wrq_wait" /\ ssent' = Append(ssent, LastSent(ssent))
           ELSE server'.pc = "listen" /\ server'.result = "aborted"

\* C27: a reader (the client's get after its first Ack, the server's WRQ handler
\* after Ack{0}) whose receive times out sends its last Ack again and waits
\* again, and aborts only when MAX_RETRIES retries are used up
C27_ReaderRetransmits ==
    [][C27_ReaderRetransmitsStep]_vars

\* every two Data datagrams of a history with the same block number are the
\* same bytes
SameBytes(log) ==
    \A j, k \in 1..Len(log) :
        (log[j].op = TFTP_OPCODE_DATA /\ log[k].op = TFTP_OPCODE_DATA
            /\ log[j].num = log[k].num) => log[j].buf = log[k].buf

\* C28: whenever a writer (the client's put, the server's RRQ handler) sends a
\* Data block again it sends the bytes of the first send of that block: the
\* same block number, payload and length
C28_SameBytesResent ==
    /\ client.cmd = "put" => SameBytes(csent)
    /\ SameBytes(ssent)

\* the datagram consumed is a well-formed Ack
IsAck(rec) ==
    rec.op = TFTP_OPCODE_ACK /\ rec.len = ACK_PACKET_SIZE

C29_OldAckIgnoredStep ==
    /\ (client.pc \in {"put_wait", "put_rewait"} /\ runs' = runs
            /\ crecv'.n = crecv.n + 1 /\ crecv'.src = client.server_addr
            /\ IsAck(crecv') /\ crecv'.num < client.current_block_num) =>
           /\ csent' = csent
           /\ client'.current_block_num = client.current_block_num
           /\ client'.in_pos = client.in_pos
           /\ client'.pc = client.pc
    /\ (server.pc = "rrq_wait"
            /\ srecv'.n = srecv.n + 1 /\ srecv'.src = RequestPeer
            /\ IsAck(srecv') /\ srecv'.num < server.block_num) =>
           /\ ssent' = ssent
           /\ server'.block_num = server.block_num
           /\ server'.in_pos = server.in_pos
           /\ server'.retry_count = server.retry_count
           /\ server'.pc = "rrq_wait"

\* C29: a writer waiting for Ack{M} that takes Ack{block < M} from its peer sends
\* nothing, keeps M, reads nothing from its source, uses up no retry and waits on
C29_OldAckIgnored ==
    [][C29_OldAckIgnoredStep]_vars

C30_FutureAckStep ==
    /\ (client.pc \in {"put_wait", "put_rewait"} /\ runs' = runs
            /\ crecv'.n = crecv.n + 1 /\ crecv'.src = client.server_addr
            /\ IsAck(crecv') /\ crecv'.num > client.current_block_num) =>
           /\ SendsError(csent, csent', TFTP_ERROR_ILLEGAL_OPERATION, crecv'.src)
           /\ client'.pc = "done" /\ client'.exit = 1
    /\ (server.pc = "rrq_wait"
            /\ srecv'.n = srecv.n + 1 /\ srecv'.src = RequestPeer
            /\ IsAck(srecv') /\ srecv'.num > server.block_num) =>
           /\ SendsError(ssent, ssent', TFTP_ERROR_ILLEGAL_OPERATION, srecv'.src)
           /\ server'.pc = "listen" /\ server'.result = "aborted"

\* C30: a writer waiting for Ack{M} that takes Ack{block > M} from its peer sends
\* Error(IllegalOperation) to the peer and aborts the transfer
C30_FutureAck ==
    [][C30_FutureAckStep]_vars

\* the k-th chunk (k >= 1) of a source: its bytes (k-1)*MAX_DATA_SIZE up to
\* k*MAX_DATA_SIZE, or fewer at the end
Chunk(bytes, k) ==
    SubSeq(bytes, (k - 1) * MAX_DATA_SIZE + 1,
           IF k * MAX_DATA_SIZE < Len(bytes) THEN k * MAX_DATA_SIZE ELSE Len(bytes))

\* every Data datagram of a history carries, under block number k >= 1, the k-th
\* chunk of the source
DataAreChunks(log, bytes) ==
    \A j \in 1..Len(log) :
        log[j].op = TFTP_OPCODE_DATA =>
            /\ log[j].num >= 1
            /\ log[j].buf = create_data_packet(log[j].num, Chunk(bytes, log[j].num))

C31_ChunksInOrderStep ==
    /\ (client'.cmd = "put" /\ runs' = runs) =>
           /\ DataAreChunks(csent', localSrc.data)
           /\ client'.current_block_num >= client.current_block_num
    /\ (server'.pc = "rrq_wait" \/ (server.pc = "rrq_wait" /\ server'.socks = server.socks)) =>
           DataAreChunks(ssent', sfiles[RemoteName].data)
    /\ (server.pc = "rrq_wait" /\ server'.socks = server.socks) =>
           server'.block_num >= server.block_num

\* C31: every Data datagram a writer (the client's put, the server's RRQ handler)
\* sends with block number k carries exactly the k-th chunk of MAX_DATA_SIZE
\* bytes of its source, and the writer's current block number never decreases,
\* whatever times out, is duplicated or comes from a third party
C31_ChunksInOrder ==
    [][C31_ChunksInOrderStep]_vars

\* the client's get has the server for its peer: the request went to the server
\* and the first reply came from the server
GetFromServer ==
    client.cmd = "get" /\ client.server_addr.ip = "S"

\* C32: a reader that ends reporting success holds the content of the writer's
\* source, whatever was lost, duplicated, late or sent by a third party, and
\* while a transfer runs the bytes written so far are a prefix of the source; for
\* the client's get from the server and for the server's WRQ handler
C32_DataIntegrity ==
    /\ (GetFromServer /\ client.pc = "get_wait") =>
           IsPrefix(localOut.data, sfiles[RemoteName].data)
    /\ (GetFromServer /\ client.pc = "done" /\ client.exit = 0) =>
           localOut.data = sfiles[RemoteName].data
    /\ (ServesWRQ /\ server.pc = "wrq_wait") =>
           IsPrefix(sfiles[RemoteName].data, localSrc.data)
    /\ (ServesWRQ /\ server.pc = "listen" /\ server.result = "success") =>
           sfiles[RemoteName].data = localSrc.data

\* every address a socket is created with: one per client invocation, one per
\* datagram the listening socket receives (the client's requests, and the
\* requests a fault of the network adds)
AllSockets ==
    {ClientAddr(r) : r \in 1..MaxRuns} \cup {TransferAddr(k) : k \in 1..(MaxRuns + MaxFaults)}

\* C33: every transfer ends (with success, a fatal error, or an abort after
\* timeouts) and its socket is then released: a client in a get or a put ends its
\* invocation, a server handler returns to the dispatcher, and every socket
\* that was opened is closed, given that each recvfrom() returns a datagram or
\* times out and that the network's faults are finitely many
C33_Terminates ==
    /\ ClientActive ~> ~ClientActive
    /\ ServerActive ~> ~ServerActive
    /\ \A a \in AllSockets : (a \in sock.open) ~> (a \in sock.closed)

\* the datagrams queued on the listening socket, in arrival order
ListenQueue(n) ==
    LET ToListen(p) == p.dst = [ip |-> "S", port |-> TFTP_DEFAULT_PORT]
    IN  SelectSeq(n, ToListen)

\* the step takes a datagram from the listening socket: a new transfer socket
TakesFromListen ==
    server'.socks # server.socks

\* the step closes the socket of the server's transfer
ClosesTransfer ==
    LET a == [ip |-> "S", port |-> 49152 + server'.socks]
    IN  a \in sock'.closed /\ a \notin sock.closed

C34_OneAtATimeStep ==
    /\ TakesFromListen =>
           /\ server.pc = "listen"
           /\ server'.socks = server.socks + 1
           /\ ListenQueue(net) # <<>>
           /\ ListenQueue(net') = Tail(ListenQueue(net))
           /\ \/ server'.pc = "listen" /\ server'.result \in {"refused", "aborted"}
              \/ server'.pc \in {"rrq_wait", "wrq_wait"} /\ server'.result = "none"
    /\ (server.pc # "listen" /\ hist'.drop = hist.drop) =>
           IsPrefix(ListenQueue(net), ListenQueue(net'))
    /\ ClosesTransfer =>
           /\ server'.pc = "listen"
           /\ server'.result \in {"refused", "success", "aborted"}

\* C34: the dispatcher serves one request at a time and no transfer stops it: a
\* datagram is taken from the listening socket only while no transfer runs;
\* while one runs the queue of the listening socket is left alone; and when a
\* request ends (refused, completed, aborted, or with an exception thrown by the
\* handler) the server is back in run_server's recvfrom()
C34_OneAtATime ==
    [][C34_OneAtATimeStep]_vars

\* after a handler threw (the first transfer socket was left open) the
\* dispatcher took the next request and serves it, while one more request waits
\* in the queue of the listening socket
C34_Witness ==
    /\ server.socks = 2
    /\ [ip |-> "S", port |-> 49153] \in sock.open
    /\ server.pc \in {"rrq_wait", "wrq_wait"}
    /\ ListenQueue(net) # <<>>
    /\ hist.foreign = 1

\* the client's history holds the WRQ and nothing else
OnlyWrqSent ==
    Len(csent) = 1 /\ csent[1].op = TFTP_OPCODE_WRQ

\* the step consumes an Ack of exactly ACK_PACKET_SIZE bytes with block number 0
TakesAck0 ==
    /\ crecv'.n = crecv.n + 1
    /\ crecv'.op = TFTP_OPCODE_ACK /\ crecv'.len = 4 /\ crecv'.num = 0

C35_NoDataBeforeAck0Step ==
    /\ client.pc = "put_ack0" => OnlyWrqSent
    /\ (client.pc = "put_ack0" /\ runs' = runs /\ client' # client) =>
           IF TakesAck0
           THEN /\ client'.pc = "put_wait"
                /\ Len(csent') = 2
                /\ csent'[2].op = TFTP_OPCODE_DATA /\ csent'[2].num = 1
                /\ csent'[2].dst = crecv'.src
           ELSE /\ client'.pc = "done" /\ client'.exit = 1
                /\ csent' = csent
    /\ (client'.cmd = "put" /\ runs' = runs
            /\ DataSent(csent) = <<>> /\ DataSent(csent') # <<>>) =>
           (client.pc = "put_ack0" /\ TakesAck0)

\* C35: the client's put sends no Data before it has taken Ack{0}: while it
\* waits for the reply to the WRQ it has sent the WRQ only; the first Data goes
\* out in the step that takes a 4-byte Ack of block 0; and on any other first
\* reply (Ack of another block, Ack of another length, Error, another opcode) or
\* on a timeout it ends with exit code 1 having sent the WRQ only
C35_NoDataBeforeAck0 ==
    [][C35_NoDataBeforeAck0Step]_vars

\* a put whose first reply was an Ack of block 0 with five bytes: it ended with
\* exit code 1 and the WRQ is all it sent
C35_Witness ==
    /\ client.cmd = "put" /\ client.pc = "done" /\ client.exit = 1
    /\ crecv.n = 1 /\ crecv.op = TFTP_OPCODE_ACK /\ crecv.num = 0 /\ crecv.len = 5
    /\ OnlyWrqSent

\* a block counter stays or goes on by one modulo 2^16: 65535 is followed by 0
GoesOn(before, after) ==
    after = before \/ after = (before + 1) % 65536

\* both sides have ended the transfer
BothEnded ==
    client.pc = "done" /\ server.pc = "listen"

C36_WrapContinuesStep ==
    /\ GoesOn(client.current_block_num, client'.current_block_num)
    /\ GoesOn(client.expected_block_num, client'.expected_block_num)
    /\ GoesOn(server.block_num, server'.block_num)
    /\ GoesOn(server.expected_block_num, server'.expected_block_num)
    /\ client'.exit # 1 /\ server'.result # "aborted"
    /\ BothEnded' \/ Len(net') = 1
    /\ client'.cmd = "put" =>
           /\ IsPrefix(sfiles'[RemoteName].data, localSrc'.data)
           /\ Len(sfiles'[RemoteName].data) > Len(sfiles[RemoteName].data)
                  => srecv'.num = server.expected_block_num
           /\ server'.pc = "listen" =>
                  server'.result = "success" /\ sfiles'[RemoteName].data = localSrc'.data
           /\ client'.pc = "done" => client'.exit = 0
    /\ client'.cmd = "get" =>
           /\ IsPrefix(localOut'.data, sfiles'[RemoteName].data)
           /\ Len(localOut'.data) > Len(localOut.data)
                  => crecv'.num = client.expected_block_num
           /\ client'.pc = "done" =>
                  client'.exit = 0 /\ localOut'.data = sfiles'[RemoteName].data
           /\ server'.pc = "listen" => server'.result = "success"

\* C36: block numbers go on by plain increment modulo 2^16, so block 65535 is
\* followed by block 0 on both sides: on a network without faults a transfer of
\* more than 65535 blocks goes on across the wrap, block by block, without an
\* abort and without a stop, and ends in success on both sides with the output
\* equal to the source
C36_WrapContinues ==
    [][C36_WrapContinuesStep]_vars

\* a get that went from block 65534 over blocks 65535, 0 and 1 to a last
\* block 2 of one byte and ended in success on both sides
C36_Witness ==
    /\ client.cmd = "get" /\ BothEnded
    /\ client.exit = 0 /\ server.result = "success"
    /\ client.expected_block_num = 2 /\ server.block_num = 3
    /\ crecv.num = 2 /\ srecv.num = 2
    /\ Len(localOut.data) = 4 * MAX_DATA_SIZE + 1

\* the client's invocation is a get that has sent its RRQ
GetRequested(c) ==
    c.cmd = "get" /\ c.server_addr # NoAddr

\* the client's invocation is a get that has ended with a failure
GetFailed(c) ==
    c.cmd = "get" /\ c.pc = "done" /\ c.exit # 0

\* the step starts a get that sends its RRQ
GetStarts ==
    runs' = runs + 1 /\ GetRequested(client')

C37_GetTruncatesAndRemovesStep ==
    /\ GetStarts =>
           /\ localOut' = File(<<>>)
           /\ crecv' = NoRecv
           /\ client'.pc = "get_wait"
    /\ (GetRequested(client') /\ GetFailed(client')) => ~localOut'.exists
    /\ (runs' = runs + 1 /\ ~GetRequested(client')) => localOut' = localOut

Terminators(buf) ==
    {ij \in (1..Len(buf)) \X (1..Len(buf)) :
        /\ 3 < ij[1] /\ ij[1] + 1 < ij[2]
        /\ buf[ij[1]] = 0 /\ buf[ij[2]] = 0
        /\ \A k \in 3..(ij[2] - 1) : k # ij[1] => buf[k] # 0}

\* opcode 1 or 2, a non-empty file name and a non-empty mode, each ended by a zero
WellFormedRequest(buf) ==
    /\ Len(buf) >= 2
    /\ buf[1] = 0 /\ buf[2] \in {1, 2}
    /\ Terminators(buf) # {}

\* the file name and the mode of a well-formed request
RequestName(buf) ==
    LET ij == CHOOSE ij \in Terminators(buf) : TRUE
    IN  SubSeq(buf, 3, ij[1] - 1)

RequestMode(buf) ==
    LET ij == CHOOSE ij \in Terminators(buf) : TRUE
    IN  SubSeq(buf, ij[1] + 1, ij[2] - 1)

\* a well-formed request with bytes after the terminator of its mode
HasTrailingBytes(buf) ==
    /\ WellFormedRequest(buf)
    /\ \E ij \in Terminators(buf) : ij[2] < Len(buf)

\* the server's only datagram for the request is an Error with this code and
\* message, sent from a transfer socket to the sender of the request
OnlyReplyIsError(code, msg) ==
    /\ Len(ssent) = 1
    /\ ssent[1].buf = create_error_packet(code, msg)
    /\ ssent[1].src = TransferAddr(server.socks) /\ ssent[1].dst = ForeignAddr

\* C38: the dispatcher accepts a datagram as a request exactly when its opcode
\* is 1 or 2 and it holds a non-empty file name ended by a zero byte and then a
\* non-empty mode ended by a zero byte. A datagram that is anything else (empty
\* name, empty mode, a terminator missing, under 6 bytes, another opcode) is
\* answered with Error 4 "Malformed request packet" and nothing else happens.
\* An accepted request goes on with its file name and its mode, whatever bytes
\* follow the mode's terminator: the mode decides whether it is refused as
\* unsupported, and the handler gets the file name
C38_RequestParsing ==
    (server.socks = 1 /\ codec.stage = "sent") =>
        LET buf == codec.buffer
            malformed == OnlyReplyIsError(TFTP_ERROR_ILLEGAL_OPERATION, MSG_MALFORMED_REQUEST)
            unsupported == OnlyReplyIsError(TFTP_ERROR_ILLEGAL_OPERATION, MSG_UNSUPPORTED_MODE)
        IN  /\ malformed <=> ~WellFormedRequest(buf)
            /\ malformed => (server.pc = "listen" /\ server.result = "refused"
                                /\ sfiles = hist.dir /\ sock.open = {})
            /\ WellFormedRequest(buf) =>
                   /\ server.filename = RequestName(buf)
                   /\ unsupported <=> lower(RequestMode(buf)) # OCTET
                   /\ (~unsupported /\ buf[2] = TFTP_OPCODE_RRQ
                           /\ server.filename = RemoteName) =>
                          (server.pc = "rrq_wait" /\ ssent[1].op = TFTP_OPCODE_DATA)
                   /\ (~unsupported /\ buf[2] = TFTP_OPCODE_WRQ
                           /\ server.filename # RemoteName) =>
                          (server.pc = "wrq_wait" /\ ssent[1].op = TFTP_OPCODE_ACK)

\* a RRQ for "n" in mode "octet" with the bytes "x" and zero after the mode's
\* terminator has been accepted: the first Data block is out
C38_Witness ==
    /\ server.socks = 1 /\ codec.stage = "sent"
    /\ codec.buffer = create_request_packet(TFTP_OPCODE_RRQ, RemoteName, OCTET) \o <<120, 0>>
    /\ HasTrailingBytes(codec.buffer)
    /\ server.pc = "rrq_wait" /\ server.filename = RemoteName
    /\ Len(ssent) = 1 /\ ssent[1].op = TFTP_OPCODE_DATA /\ ssent[1].num = 1

\* the bytes of a buffer from offset 4 (the fifth byte) up to, not including, the
\* first zero byte, or to the end of the buffer if it holds no zero byte there
MessageBytes(buf) ==
    LET zeros == {i \in 5..Len(buf) : buf[i] = 0}
        stop == IF zeros = {} THEN Len(buf) + 1
                ELSE CHOOSE i \in zeros : \A j \in zeros : i <= j
    IN  SubSeq(buf, 5, stop - 1)

\* the buffer holds no zero byte from offset 4 on
Unterminated(buf) ==
    \A i \in 5..Len(buf) : buf[i] # 0

\* C39: parsing a buffer of at least 5 bytes with opcode 5 always succeeds and
\* yields the 16-bit code of bytes 2 and 3; the message is the bytes from offset
\* 4 up to the first zero byte, and the whole remainder of the buffer if there
\* is no zero byte
C39_ErrorMessage ==
    (codec.stage = "parsed" /\ Len(codec.buffer) >= 5
         /\ get_opcode(codec.buffer) = TFTP_OPCODE_ERROR) =>
        /\ codec.parsed.ok
        /\ codec.parsed.packet.error_code = codec.buffer[3] * 256 + codec.buffer[4]
        /\ codec.parsed.packet.error_msg = MessageBytes(codec.buffer)

\* a buffer with opcode 4 that is not 4 bytes long
OddAck(buf) ==
    get_opcode(buf) = TFTP_OPCODE_ACK /\ Len(buf) # 4

\* a buffer of exactly 4 bytes with opcode 4
ExactAck(buf) ==
    Len(buf) = 4 /\ buf[1] = 0 /\ buf[2] = 4

C40_AckLengthStep ==
    LET ci == HeadFor(ClientAddr(runs))
        si == HeadFor(TransferAddr(server.socks))
        ClientTakes == /\ client.pc \in {"put_ack0", "put_wait", "put_rewait"}
                       /\ ci # 0 /\ crecv'.n = crecv.n + 1
        ServerTakes == server.pc = "rrq_wait" /\ si # 0 /\ srecv'.n = srecv.n + 1
    IN  /\ ClientTakes =>
               /\ (client.pc = "put_ack0" /\ client'.pc = "put_wait") => ExactAck(net[ci].buf)
               /\ client'.current_block_num = (client.current_block_num + 1) % 65536
                      => ExactAck(net[ci].buf)
               /\ (OddAck(net[ci].buf)
                       /\ (client.pc = "put_ack0" \/ net[ci].src = client.server_addr)) =>
                      /\ client'.pc = "done" /\ client'.exit = 1
                      /\ client'.current_block_num = client.current_block_num
                      /\ client'.in_pos = client.in_pos
                      /\ csent' = csent
        /\ ServerTakes =>
               /\ server'.block_num # server.block_num => ExactAck(net[si].buf)
               /\ OddAck(net[si].buf) =>
                      /\ server'.pc = "rrq_wait"
                      /\ server'.block_num = server.block_num
                      /\ server'.in_pos = server.in_pos
                      /\ server'.data_packet = server.data_packet
                      /\ ssent' = ssent

\* C40: an Ack is accepted only as a buffer of exactly 4 bytes with opcode 4. A
\* writer that takes a buffer with opcode 4 of another length does not advance
\* its block number and sends no further block on it: the server's reader of a
\* RRQ ignores it and waits on, the client's send_file aborts; a writer's block
\* number advances only on a buffer of exactly 4 bytes with opcode 4
C40_AckLength ==
    [][C40_AckLengthStep]_vars

\* the server waits for the Ack of block 1 of a file of more than one block and
\* has taken a 5-byte buffer with opcode 4 and block number 1 from its peer: it
\* still waits for the Ack of block 1 and has sent nothing more
C40_Witness ==
    /\ server.pc = "rrq_wait" /\ server.block_num = 1
    /\ more_to_send(server.bytes_read)
    /\ srecv.n = 1 /\ srecv.op = TFTP_OPCODE_ACK /\ srecv.num = 1 /\ srecv.len = 5
    /\ srecv.src = server.client_addr
    /\ Len(ssent) = 1 /\ net = <<>>

====
